---- MODULE Spec2Model ----
(***************************************************************************)
(* Verification model of korabli-mod-manager.                              *)
(*                                                                         *)
(* Part I  (Spec, LiveSpec): the orchestrator App::update of               *)
(*   src/src/app/update.rs together with the three task state machines of  *)
(*   src/src/tasks/install.rs, src/src/tasks/uninstall.rs and              *)
(*   src/src/download.rs.  One action per message handler; the messages    *)
(*   produced by Task::done / Task::batch wait in the bag msgs and are     *)
(*   delivered in any order; a started asynchronous operation waits in ops *)
(*   until its terminal event is handled.                                  *)
(* Part II (FsSpec): the record store ModManager of                        *)
(*   src/src/mod_manager.rs acting on a resource-mod directory.            *)
(* Part III (ManifestSpec): ensure_records and the manifest written and    *)
(*   read back through the JSON codec.                                     *)
(* Part IV (RegistrySpec): LoadRegistries over lists of sources.           *)
(* Part V  (TaskSpec): the task objects Download, Install and Uninstall    *)
(*   on their own, with the progress events of download_to.                *)
(* Part VI (SanitizeSpec): sanitize_file_path on archive entry names.      *)
(* Part VII (LocateSpec): ModManager::try_from_game_dir.                   *)
(* Part VIII (PoolSpec): the orchestrator with two requests for one id     *)
(*   under way.                                                            *)
(* Part IX (CacheSpec): the orchestrator together with the record store    *)
(*   and what it remembers of the manifest.                                *)
(***************************************************************************)
EXTENDS Integers, Sequences, FiniteSets, Bags, TLC

\* ------------------------------------------------------------------------
\* Bounds
\* ------------------------------------------------------------------------
\* number of UninstallMod and GetMod requests the "update mods" button issues
\* over a run, all presses together
MaxRequests == 3

\* number of entries of an archive
MaxEntries == 2

Ids == {"m1", "m2"}
\* archive types a registry document may list for a mod
Types == {"zip", "rar"}

\* ------------------------------------------------------------------------
\* Part I: orchestrator state (struct App, src/src/app.rs)
\* ------------------------------------------------------------------------
VARIABLES
  mod_manager,                \* App.mod_manager: TRUE = Some(handle), FALSE = None
  installs,                   \* App.installs: VecDeque<Install>
  uninstalls,                 \* App.uninstalls: VecDeque<Uninstall>
  downloads,                  \* App.downloads: Vec<Download>
  registries,                 \* App.registries: VecDeque<Registry>
  need_current_mods_update,   \* App.need_current_mods_update
  need_records_update,        \* App.need_records_update
  msgs,                       \* bag of messages produced and not yet handled
  ops,                        \* asynchronous operations started and not yet ended
  next_tid,                   \* per task kind, the identity of the next task object
  requests,                   \* number of requests issued by UpdateMods so far
  crashed                     \* TRUE once update() has panicked

\* Part II: record store state (src/src/mod_manager.rs)
VARIABLES
  files,                      \* regular files under the resource-mod directory
  dirs,                       \* directories under the resource-mod directory
  manifest,                   \* content of .kmmgr.json: id -> Record or NoRecord
  job,                        \* the install in progress, if any
  intact,                     \* id -> TRUE iff the Record of id was written by an
                              \*   install and no uninstall has run since
  last,                       \* the operation last run and its result
  removed,                    \* the mod whose uninstall has just followed its
                              \*   install, with the files there before it
  manifest_exists             \* TRUE iff the file .kmmgr.json exists

\* what the orchestrator remembers of the manifest (struct App)
VARIABLES
  app_records,                \* App.records: the manifest as last read
  current_mods                \* App.current_mods: the ids shown as installed

appVars == <<mod_manager, installs, uninstalls, downloads, registries,
             need_current_mods_update, need_records_update, msgs, ops,
             next_tid, requests, crashed>>
fsVars == <<files, dirs, manifest, job, intact, last, removed,
           manifest_exists>>
cacheVars == <<app_records, current_mods>>
vars == <<appVars, fsVars, cacheVars>>

\* ------------------------------------------------------------------------
\* Messages (enum Message, src/src/messages.rs)
\* ------------------------------------------------------------------------
Msg(type, id, ty) == [type |-> type, id |-> id, ty |-> ty]
M(type) == Msg(type, "-", "-")

Send(bag, set) == bag (+) SetToBag(set)
Recv(bag, m) == bag (-) SetToBag({m})

\* ------------------------------------------------------------------------
\* Task state machines
\* ------------------------------------------------------------------------
\* Install::new / Uninstall::new / Download::new: created Ready
NewTask(tid, id, ty) == [tid |-> tid, id |-> id, state |-> "Ready", ty |-> ty]

\* the operation a started task runs
Op(kind, t) == [kind |-> kind, tid |-> t.tid, id |-> t.id, ty |-> t.ty]

\* Install::start / Uninstall::start / Download::start: the task after start
StartTask(t) == [t EXCEPT !.state = "Running"]

\* the operations Install::start etc. spawn: none when already Running
StartOps(kind, t) == IF t.state = "Running" THEN {} ELSE {Op(kind, t)}

\* the terminal event taken in whatever state the task is
UpdateTask_any_state(t, ok) ==
  [t EXCEPT !.state = IF ok THEN "Finished" ELSE "Failed"]

\* Install::update / Uninstall::update / Download::update with a terminal
\* event: only a Running task changes
UpdateTask(t, ok) ==
  IF t.state = "Running"
  THEN [t EXCEPT !.state = IF ok THEN "Finished" ELSE "Failed"]
  ELSE t

\* the new task put at the front of the queue
PushBack_front(q, t) == <<t>> \o q

\* VecDeque::push_back / Vec::push
PushBack(q, t) == Append(q, t)

\* the slot read without being emptied
Take_kept == [some |-> mod_manager, left |-> mod_manager]

\* self.mod_manager.take(): what the slot held, and what it holds afterwards
Take == [some |-> mod_manager, left |-> FALSE]

\* iter().position(|x| x.id() == id): index of the first task with that id, 0 if none
Position(q, id) ==
  IF \E i \in 1..Len(q) : q[i].id = id
  THEN CHOOSE i \in 1..Len(q) :
         q[i].id = id /\ \A j \in 1..(i-1) : q[j].id # id
  ELSE 0

\* remove(pos)
RemoveAt(q, pos) == [i \in 1..(Len(q)-1) |-> IF i < pos THEN q[i] ELSE q[i+1]]

\* App::request_mod: the listing of id in the first registry that has it
Listed(id) == \E i \in 1..Len(registries) : id \in DOMAIN registries[i]
RequestMod(id) ==
  registries[CHOOSE i \in 1..Len(registries) :
               id \in DOMAIN registries[i]
               /\ \A j \in 1..(i-1) : id \notin DOMAIN registries[j]][id]

\* ------------------------------------------------------------------------
\* Init: App::default() with the start-up batch of iced_main in flight
\* ------------------------------------------------------------------------
AppInit ==
  /\ mod_manager = FALSE
  /\ installs = <<>>
  /\ uninstalls = <<>>
  /\ downloads = <<>>
  /\ registries = <<>>
  /\ need_current_mods_update = FALSE
  /\ need_records_update = FALSE
  /\ msgs = SetToBag({M("PrepareModManager"), M("LoadRegistries"),
                      M("QueueUpdateCurrentMods"), M("QueueUpdateRecords")})
  /\ ops = {}
  /\ next_tid = [k \in {"download", "install", "uninstall"} |-> 1]
  /\ requests = 0
  /\ crashed = FALSE

\* struct Record / struct Records: the manifest maps an id to a Record or
\* has no entry for it
NoRecord == [present |-> FALSE, update_time |-> 0, version |-> "",
             files |-> <<>>]

\* SystemTime::now() in seconds since the epoch: the one instant of the run
Now == 1700000000

\* the Record install_zip_mod builds (metadata: None)
Record(version, paths) ==
  [present |-> TRUE, update_time |-> Now, version |-> version, files |-> paths]

\* the state of an install between its steps: the Record being built and
\* the deferred tasks; writes is the set of file destinations of the archive
NoJob == [op |-> "none", stage |-> "-", id |-> "-", version |-> "",
          entries |-> <<>>, tasks |-> <<>>, files |-> <<>>, writes |-> {}]
\* Result<_, Error> of the last operation; file is FileConflict's path
Result(op, res, file) == [op |-> op, res |-> res, file |-> file]

\* no uninstall has just followed an install
NoRemoved == [id |-> "-", files |-> {}]

\* an empty resource-mod directory whose manifest ensure_records has created
FsInit ==
  /\ files = {}
  /\ dirs = {<<>>}
  /\ manifest = [i \in Ids |-> NoRecord]
  /\ job = NoJob
  /\ intact = [i \in Ids |-> FALSE]
  /\ last = Result("none", "none", <<>>)
  /\ removed = NoRemoved
  /\ manifest_exists = TRUE

\* App::new: Records::default() and an empty set
CacheInit ==
  /\ app_records = [i \in Ids |-> NoRecord]
  /\ current_mods = {}

Init == AppInit /\ FsInit /\ CacheInit

\* ------------------------------------------------------------------------
\* Handlers of App::update (src/src/app/update.rs), one action each
\* ------------------------------------------------------------------------
Handle(m) == ~crashed /\ BagIn(m, msgs)

\* Message::PrepareModManager: locate the directory, ensure the manifest,
\* then deliver the handle
PrepareModManager ==
  /\ Handle(M("PrepareModManager"))
  /\ msgs' = Send(Recv(msgs, M("PrepareModManager")), {M("ModManagerReady")})
  /\ UNCHANGED <<fsVars, cacheVars>>
  /\ UNCHANGED <<mod_manager, installs, uninstalls, downloads, registries,
                 need_current_mods_update, need_records_update, ops,
                 next_tid, requests, crashed>>

\* the registry documents a source may deliver
RegistryDocs == {doc \in [Ids -> Types] : doc["m1"] = "zip"}
RegistryOp == [kind |-> "registry", tid |-> 0, id |-> "-", ty |-> "-"]

\* Message::LoadRegistries: clear the registries and fetch the source
LoadRegistries ==
  /\ Handle(M("LoadRegistries"))
  /\ registries' = <<>>
  /\ ops' = ops \cup {RegistryOp}
  /\ msgs' = Recv(msgs, M("LoadRegistries"))
  /\ UNCHANGED <<fsVars, cacheVars>>
  /\ UNCHANGED <<mod_manager, installs, uninstalls, downloads,
                 need_current_mods_update, need_records_update,
                 next_tid, requests, crashed>>

\* the fetch ends well: Message::RegistryLoaded
RegistryLoaded(doc) ==
  /\ ~crashed
  /\ RegistryOp \in ops
  /\ ops' = ops \ {RegistryOp}
  /\ registries' = <<doc>> \o registries
  /\ UNCHANGED <<fsVars, cacheVars>>
  /\ UNCHANGED <<mod_manager, installs, uninstalls, downloads,
                 need_current_mods_update, need_records_update, msgs,
                 next_tid, requests, crashed>>

\* the fetch or the parse fails: Message::Warning instead of a registry
RegistryFailed ==
  /\ ~crashed
  /\ RegistryOp \in ops
  /\ ops' = ops \ {RegistryOp}
  /\ msgs' = Send(msgs, {M("Warning")})
  /\ UNCHANGED <<fsVars, cacheVars>>
  /\ UNCHANGED <<mod_manager, installs, uninstalls, downloads, registries,
                 need_current_mods_update, need_records_update,
                 next_tid, requests, crashed>>

\* Message::QueueUpdateRecords
QueueUpdateRecords ==
  /\ Handle(M("QueueUpdateRecords"))
  /\ IF Take.some
     THEN /\ mod_manager' = Take.left
          /\ msgs' = Send(Recv(msgs, M("QueueUpdateRecords")),
                          {M("UpdateRecords")})
          /\ UNCHANGED need_records_update
     ELSE /\ need_records_update' = TRUE
          /\ msgs' = Recv(msgs, M("QueueUpdateRecords"))
          /\ UNCHANGED mod_manager
  /\ UNCHANGED <<fsVars, cacheVars>>
  /\ UNCHANGED <<installs, uninstalls, downloads, registries,
                 need_current_mods_update, ops, next_tid, requests, crashed>>

\* records.records.keys(): the ids that have a Record
Keys(recs) == {id \in Ids : recs[id].present}

\* Message::UpdateRecords: read the manifest, keeping the handle. The value
\* read travels in RecordsUpdated together with the handle, so the manifest
\* is the same when that message is handled
UpdateRecords ==
  /\ Handle(M("UpdateRecords"))
  /\ msgs' = Send(Recv(msgs, M("UpdateRecords")), {M("RecordsUpdated")})
  /\ UNCHANGED <<fsVars, cacheVars>>
  /\ UNCHANGED <<mod_manager, installs, uninstalls, downloads, registries,
                 need_current_mods_update, need_records_update, ops,
                 next_tid, requests, crashed>>

\* Message::RecordsUpdated
RecordsUpdated ==
  /\ Handle(M("RecordsUpdated"))
  /\ app_records' = manifest
  /\ msgs' = Send(Recv(msgs, M("RecordsUpdated")), {M("ModManagerReady")})
  /\ UNCHANGED <<fsVars, current_mods>>
  /\ UNCHANGED <<mod_manager, installs, uninstalls, downloads, registries,
                 need_current_mods_update, need_records_update, ops,
                 next_tid, requests, crashed>>

\* Message::QueueUpdateCurrentMods
QueueUpdateCurrentMods ==
  /\ Handle(M("QueueUpdateCurrentMods"))
  /\ IF Take.some
     THEN /\ mod_manager' = Take.left
          /\ msgs' = Send(Recv(msgs, M("QueueUpdateCurrentMods")),
                          {M("UpdateCurrentMods")})
          /\ UNCHANGED need_current_mods_update
     ELSE /\ need_current_mods_update' = TRUE
          /\ msgs' = Recv(msgs, M("QueueUpdateCurrentMods"))
          /\ UNCHANGED mod_manager
  /\ UNCHANGED <<fsVars, cacheVars>>
  /\ UNCHANGED <<installs, uninstalls, downloads, registries,
                 need_records_update, ops, next_tid, requests, crashed>>

\* Message::UpdateCurrentMods
UpdateCurrentMods ==
  /\ Handle(M("UpdateCurrentMods"))
  /\ need_current_mods_update' = FALSE
  /\ msgs' = Send(Recv(msgs, M("UpdateCurrentMods")),
                  {M("CurrentModsUpdated")})
  /\ UNCHANGED <<fsVars, cacheVars>>
  /\ UNCHANGED <<mod_manager, installs, uninstalls, downloads, registries,
                 need_records_update, ops, next_tid, requests, crashed>>

\* Message::CurrentModsUpdated
CurrentModsUpdated ==
  /\ Handle(M("CurrentModsUpdated"))
  /\ current_mods' = Keys(manifest)
  /\ msgs' = Send(Recv(msgs, M("CurrentModsUpdated")),
                  {M("ModManagerReady")})
  /\ UNCHANGED <<fsVars, app_records>>
  /\ UNCHANGED <<mod_manager, installs, uninstalls, downloads, registries,
                 need_current_mods_update, need_records_update, ops,
                 next_tid, requests, crashed>>

\* Message::Warning: a dialog, no state
Warning ==
  /\ Handle(M("Warning"))
  /\ msgs' = Recv(msgs, M("Warning"))
  /\ UNCHANGED <<fsVars, cacheVars>>
  /\ UNCHANGED <<mod_manager, installs, uninstalls, downloads, registries,
                 need_current_mods_update, need_records_update, ops,
                 next_tid, requests, crashed>>

\* Message::AddCurrentMod / Message::RemoveCurrentMod
CurrentModMsg(type, id) ==
  /\ Handle(Msg(type, id, "-"))
  /\ current_mods' = IF type = "AddCurrentMod"
                     THEN current_mods \cup {id}
                     ELSE current_mods \ {id}
  /\ msgs' = Recv(msgs, Msg(type, id, "-"))
  /\ UNCHANGED <<fsVars, app_records>>
  /\ UNCHANGED <<mod_manager, installs, uninstalls, downloads, registries,
                 need_current_mods_update, need_records_update, ops,
                 next_tid, requests, crashed>>

\* App::available_mods: the ids the view offers
AvailableMods == {id \in Ids : Listed(id)}

\* Message::UpdateMods as the view builds it (App::view): install is the
\* set ticked for install, uninstall is that set chained with the set
\* ticked for uninstall
UpdateMods(install_mods, uninstall_mods) ==
  /\ ~crashed
  /\ requests' = requests + Cardinality(install_mods \cup uninstall_mods)
                          + Cardinality(install_mods)
  /\ requests' <= MaxRequests
  /\ IF \A id \in install_mods : Listed(id)
     THEN /\ msgs' = Send(msgs,
                {Msg("UninstallMod", id, "-") :
                     id \in install_mods \cup uninstall_mods}
                \cup {Msg("GetMod", id, "-") : id \in install_mods})
          /\ UNCHANGED crashed
     ELSE /\ crashed' = TRUE          \* todo!()
          /\ UNCHANGED msgs
  /\ UNCHANGED <<fsVars, cacheVars>>
  /\ UNCHANGED <<mod_manager, installs, uninstalls, downloads, registries,
                 need_current_mods_update, need_records_update, ops,
                 next_tid>>


\* GetMod taking the handle for the download when it is parked
GetMod_takes_handle(id) ==
  /\ Handle(Msg("GetMod", id, "-"))
  /\ LET d == NewTask(next_tid["download"], id, "-") IN
       /\ downloads' = PushBack(downloads, StartTask(d))
       /\ ops' = ops \cup StartOps("download", d)
  /\ mod_manager' = FALSE
  /\ next_tid' = [next_tid EXCEPT !["download"] = @ + 1]
  /\ msgs' = Recv(msgs, Msg("GetMod", id, "-"))
  /\ UNCHANGED <<fsVars, cacheVars>>
  /\ UNCHANGED <<installs, uninstalls, registries,
                 need_current_mods_update, need_records_update,
                 requests, crashed>>

\* Message::GetMod: a Download is created, started at once and pooled
GetMod(id) ==
  /\ Handle(Msg("GetMod", id, "-"))
  /\ LET d == NewTask(next_tid["download"], id, "-") IN
       /\ downloads' = PushBack(downloads, StartTask(d))
       /\ ops' = ops \cup StartOps("download", d)
  /\ next_tid' = [next_tid EXCEPT !["download"] = @ + 1]
  /\ msgs' = Recv(msgs, Msg("GetMod", id, "-"))
  /\ UNCHANGED <<fsVars, cacheVars>>
  /\ UNCHANGED <<mod_manager, installs, uninstalls, registries,
                 need_current_mods_update, need_records_update,
                 requests, crashed>>

\* the operations that end when the Download at pos is removed from the
\* pool and dropped: its handle is kept with abort_on_drop()
Dropped(pos) ==
  {o \in ops : o.kind = "download" /\ o.tid = downloads[pos].tid}

\* Message::GetModUpdated with DownloadUpdate::Finished(res), handled when
\* the download operation op delivers its terminal event
GetModUpdated(op, ok) ==
  /\ ~crashed
  /\ op \in ops /\ op.kind = "download"
  /\ LET pos == Position(downloads, op.id) IN
       IF pos = 0
       THEN /\ ops' = ops \ {op}
            /\ UNCHANGED <<downloads, msgs, crashed>>
       ELSE IF ~ok
       THEN /\ ops' = ops \ {op}
            /\ downloads' = [downloads EXCEPT ![pos] = UpdateTask(@, ok)]
            /\ crashed' = TRUE          \* panic!("{}", err)
            /\ UNCHANGED msgs
       ELSE /\ ops' = ops \ ({op} \cup Dropped(pos))
            /\ downloads' = RemoveAt(downloads, pos)
            /\ msgs' = Send(msgs,
                 {Msg("InstallMod", op.id,
                      IF Listed(op.id) THEN RequestMod(op.id) ELSE "")})
            /\ UNCHANGED crashed
  /\ UNCHANGED <<fsVars, cacheVars>>
  /\ UNCHANGED <<mod_manager, installs, uninstalls, registries,
                 need_current_mods_update, need_records_update,
                 next_tid, requests>>

\* the failure path reporting the error without handing the handle back
FinishedMsgs_stranded(kind, id, ok) ==
  IF ok
  THEN {M("ModManagerReady"),
        Msg(IF kind = "install" THEN "AddCurrentMod" ELSE "RemoveCurrentMod",
            id, "-"),
        M("QueueUpdateRecords")}
  ELSE {M("Warning")}

\* the success path asking for no refresh of the cached records
FinishedMsgs_no_refresh(kind, id, ok) ==
  IF ok
  THEN {M("ModManagerReady"),
        Msg(IF kind = "install" THEN "AddCurrentMod" ELSE "RemoveCurrentMod",
            id, "-")}
  ELSE {M("ModManagerReady"), M("Warning")}

\* the batches InstallModUpdated and UninstallModUpdated return for a
\* terminal event: the handle goes back in ModManagerReady on both paths
FinishedMsgs(kind, id, ok) ==
  IF ok
  THEN {M("ModManagerReady"),
        Msg(IF kind = "install" THEN "AddCurrentMod" ELSE "RemoveCurrentMod",
            id, "-"),
        M("QueueUpdateRecords")}
  ELSE {M("ModManagerReady"), M("Warning")}

\* Message::InstallMod: start the Install if the handle is parked, queue it
InstallMod(id, ty) ==
  /\ Handle(Msg("InstallMod", id, ty))
  /\ LET install == NewTask(next_tid["install"], id, ty) IN
       IF Take.some
       THEN /\ mod_manager' = Take.left
            /\ installs' = PushBack(installs, StartTask(install))
            /\ ops' = ops \cup StartOps("install", install)
       ELSE /\ installs' = PushBack(installs, install)
            /\ UNCHANGED <<mod_manager, ops>>
  /\ next_tid' = [next_tid EXCEPT !["install"] = @ + 1]
  /\ msgs' = Recv(msgs, Msg("InstallMod", id, ty))
  /\ UNCHANGED <<fsVars, cacheVars>>
  /\ UNCHANGED <<uninstalls, downloads, registries,
                 need_current_mods_update, need_records_update,
                 requests, crashed>>

\* Message::InstallModUpdated with InstallUpdate::Finished((res, mod_manager)),
\* handled when the install operation op (install_mod, archive type "zip")
\* delivers its terminal event
InstallFinished(op, ok) ==
  /\ ~crashed
  /\ op \in ops /\ op.kind = "install" /\ op.ty = "zip"
  /\ ops' = ops \ {op}
  /\ LET pos == Position(installs, op.id) IN
       IF pos = 0
       THEN UNCHANGED <<installs, msgs>>
       ELSE IF ~ok
       THEN /\ installs' = [installs EXCEPT ![pos] = UpdateTask(@, ok)]
            /\ msgs' = Send(msgs, FinishedMsgs("install", op.id, ok))
       ELSE /\ installs' = RemoveAt(installs, pos)
            /\ msgs' = Send(msgs, FinishedMsgs("install", op.id, ok))
  /\ UNCHANGED cacheVars
  /\ UNCHANGED <<mod_manager, uninstalls, downloads, registries,
                 need_current_mods_update, need_records_update,
                 next_tid, requests, crashed>>

\* the terminal event of an install operation whose work on the record
\* store is left out: it ends either way
InstallModUpdated(op, ok) ==
  /\ InstallFinished(op, ok)
  /\ UNCHANGED fsVars

\* install_mod with an archive type other than "zip": todo!() panics inside
\* the operation, which ends without a terminal event
InstallPanics(op) ==
  /\ ~crashed
  /\ op \in ops /\ op.kind = "install" /\ op.ty # "zip"
  /\ ops' = ops \ {op}
  /\ UNCHANGED <<fsVars, cacheVars>>
  /\ UNCHANGED <<mod_manager, installs, uninstalls, downloads, registries,
                 need_current_mods_update, need_records_update, msgs,
                 next_tid, requests, crashed>>

\* Message::UninstallMod: start the Uninstall if the handle is parked, queue it
UninstallMod(id) ==
  /\ Handle(Msg("UninstallMod", id, "-"))
  /\ LET uninstall == NewTask(next_tid["uninstall"], id, "-") IN
       IF Take.some
       THEN /\ mod_manager' = Take.left
            /\ uninstalls' = PushBack(uninstalls, StartTask(uninstall))
            /\ ops' = ops \cup StartOps("uninstall", uninstall)
       ELSE /\ uninstalls' = PushBack(uninstalls, uninstall)
            /\ UNCHANGED <<mod_manager, ops>>
  /\ next_tid' = [next_tid EXCEPT !["uninstall"] = @ + 1]
  /\ msgs' = Recv(msgs, Msg("UninstallMod", id, "-"))
  /\ UNCHANGED <<fsVars, cacheVars>>
  /\ UNCHANGED <<installs, downloads, registries,
                 need_current_mods_update, need_records_update,
                 requests, crashed>>

\* Message::UninstallModUpdated with UninstallUpdate::Finished((res, mod_manager))
UninstallFinished(op, ok) ==
  /\ ~crashed
  /\ op \in ops /\ op.kind = "uninstall"
  /\ ops' = ops \ {op}
  /\ LET pos == Position(uninstalls, op.id) IN
       IF pos = 0
       THEN UNCHANGED <<uninstalls, msgs>>
       ELSE IF ~ok
       THEN /\ uninstalls' = [uninstalls EXCEPT ![pos] = UpdateTask(@, ok)]
            /\ msgs' = Send(msgs, FinishedMsgs("uninstall", op.id, ok))
       ELSE /\ uninstalls' = RemoveAt(uninstalls, pos)
            /\ msgs' = Send(msgs, FinishedMsgs("uninstall", op.id, ok))
  /\ UNCHANGED cacheVars
  /\ UNCHANGED <<mod_manager, installs, downloads, registries,
                 need_current_mods_update, need_records_update,
                 next_tid, requests, crashed>>

\* the terminal event of an uninstall operation whose work on the record
\* store is left out
UninstallModUpdated(op, ok) ==
  /\ UninstallFinished(op, ok)
  /\ UNCHANGED fsVars

\* the loop with the Failed arm of its match enabled: a Failed front task
\* is taken like a Ready one
RECURSIVE PopUntilReady_or_failed(_)
PopUntilReady_or_failed(q) ==
  IF q = <<>> THEN q
  ELSE IF Head(q).state \in {"Ready", "Failed"} THEN q
  ELSE PopUntilReady_or_failed(Tail(q))

\* the loop of Message::ModManagerReady on one queue: pop_front, discard the
\* popped task unless it is Ready; what is left starts with the first Ready
\* task or is empty
RECURSIVE PopUntilReady(_)
PopUntilReady(q) ==
  IF q = <<>> THEN q
  ELSE IF Head(q).state = "Ready" THEN q
  ELSE PopUntilReady(Tail(q))

\* the loop looking at the install queue before the uninstall queue
Schedule_installs_first(us, is) ==
  IF is # <<>> THEN "install"
  ELSE IF us # <<>> THEN "uninstall"
  ELSE IF need_current_mods_update THEN "current_mods"
  ELSE IF need_records_update THEN "records"
  ELSE "park"

\* the loop looking at the records flag before the current-mods flag
Schedule_records_first(us, is) ==
  IF us # <<>> THEN "uninstall"
  ELSE IF is # <<>> THEN "install"
  ELSE IF need_records_update THEN "records"
  ELSE IF need_current_mods_update THEN "current_mods"
  ELSE "park"

\* the loop parking the handle without looking at the flags
Schedule_parks_early(us, is) ==
  IF us # <<>> THEN "uninstall"
  ELSE IF is # <<>> THEN "install"
  ELSE "park"

\* the branch the loop of Message::ModManagerReady ends in, given what is
\* left of the two queues once the non-Ready front tasks are discarded:
\* uninstalls first, then installs, then the pending refreshes, then park
Schedule(us, is) ==
  IF us # <<>> THEN "uninstall"
  ELSE IF is # <<>> THEN "install"
  ELSE IF need_current_mods_update THEN "current_mods"
  ELSE IF need_records_update THEN "records"
  ELSE "park"

\* Message::ModManagerReady: the scheduling step
ModManagerReady ==
  /\ Handle(M("ModManagerReady"))
  /\ LET us == PopUntilReady(uninstalls)
         is == PopUntilReady(installs)
         rest == Recv(msgs, M("ModManagerReady"))
         branch == Schedule(us, is)
     IN
       CASE branch = "uninstall" ->
            /\ uninstalls' = <<StartTask(Head(us))>> \o Tail(us)
            /\ ops' = ops \cup StartOps("uninstall", Head(us))
            /\ msgs' = rest
            /\ UNCHANGED <<installs, mod_manager,
                           need_current_mods_update, need_records_update>>
         [] branch = "install" ->
            /\ uninstalls' = us
            /\ installs' = <<StartTask(Head(is))>> \o Tail(is)
            /\ ops' = ops \cup StartOps("install", Head(is))
            /\ msgs' = rest
            /\ UNCHANGED <<mod_manager,
                           need_current_mods_update, need_records_update>>
         [] branch = "current_mods" ->
            /\ uninstalls' = us /\ installs' = is
            /\ need_current_mods_update' = FALSE
            /\ msgs' = Send(rest, {M("UpdateCurrentMods")})
            /\ UNCHANGED <<mod_manager, ops, need_records_update>>
         [] branch = "records" ->
            /\ uninstalls' = us /\ installs' = is
            /\ need_records_update' = FALSE
            /\ msgs' = Send(rest, {M("UpdateRecords")})
            /\ UNCHANGED <<mod_manager, ops, need_current_mods_update>>
         [] branch = "park" ->
            /\ uninstalls' = us /\ installs' = is
            /\ mod_manager' = TRUE
            /\ msgs' = rest
            /\ UNCHANGED <<ops, need_current_mods_update,
                           need_records_update>>
  /\ UNCHANGED <<fsVars, cacheVars>>
  /\ UNCHANGED <<downloads, registries, next_tid, requests, crashed>>

\* the steps of the runtime: a message is delivered or an operation ends
Deliver ==
  \/ PrepareModManager
  \/ LoadRegistries
  \/ \E doc \in RegistryDocs : RegistryLoaded(doc)
  \/ RegistryFailed
  \/ QueueUpdateRecords
  \/ UpdateRecords
  \/ RecordsUpdated
  \/ QueueUpdateCurrentMods
  \/ UpdateCurrentMods
  \/ CurrentModsUpdated
  \/ Warning
  \/ \E id \in Ids : CurrentModMsg("AddCurrentMod", id)
  \/ \E id \in Ids : CurrentModMsg("RemoveCurrentMod", id)
  \/ \E id \in Ids : GetMod(id)
  \/ \E op \in ops : \E ok \in BOOLEAN : GetModUpdated(op, ok)
  \/ \E id \in Ids : \E ty \in Types \cup {""} : InstallMod(id, ty)
  \/ \E op \in ops : \E ok \in BOOLEAN : InstallModUpdated(op, ok)
  \/ \E op \in ops : InstallPanics(op)
  \/ \E id \in Ids : UninstallMod(id)
  \/ \E op \in ops : \E ok \in BOOLEAN : UninstallModUpdated(op, ok)
  \/ ModManagerReady

\* the steps of the user: the button is pressed with some boxes ticked
Request ==
  \E im \in SUBSET AvailableMods : \E um \in SUBSET (AvailableMods \ im) :
    /\ im \cup um # {}
    /\ UpdateMods(im, um)

AppNext == Deliver \/ Request

Next == AppNext

Spec == Init /\ [][Next]_vars

\* The runtime keeps delivering messages and terminal events as long as
\* there are any; the user is free to stop pressing the button.
LiveSpec == Spec /\ WF_vars(Deliver)
\* ------------------------------------------------------------------------
\* Properties of the orchestrator
\* ------------------------------------------------------------------------
Running(q) == {i \in 1..Len(q) : q[i].state = "Running"}
Ready(q) == {i \in 1..Len(q) : q[i].state = "Ready"}
Copies(type) == CopiesIn(M(type), msgs)

\* the operations that hold the handle while they run
HandleOps == {op \in ops : op.kind \in {"install", "uninstall"}}

\* number of places the handle is in
HandleCount ==
  (IF mod_manager THEN 1 ELSE 0)
  + Cardinality(HandleOps)
  + Copies("ModManagerReady") + Copies("UpdateRecords")
  + Copies("RecordsUpdated") + Copies("UpdateCurrentMods")
  + Copies("CurrentModsUpdated")

\* C1: in every reachable state at most one task of the install queue and
\* the uninstall queue together is Running.
C1_AtMostOneRunning ==
  Cardinality(Running(installs)) + Cardinality(Running(uninstalls)) <= 1

\* C1 witness: an Uninstall is Running while an Install is queued Ready, or
\* an Install is Running while an Uninstall is queued Ready.
C1_Witness ==
  \/ Running(uninstalls) # {} /\ Ready(installs) # {}
  \/ Running(installs) # {} /\ Ready(uninstalls) # {}

\* C2: once PrepareModManager has produced the handle, the handle is in
\* exactly one place (parked, held by a running Install/Uninstall, or
\* carried by a message), and it is never parked while a task is Running.
C2_ExactlyOneHandle ==
  ~BagIn(M("PrepareModManager"), msgs) =>
     /\ HandleCount = 1
     /\ mod_manager => Running(installs) \cup Running(uninstalls) = {}

\* the terminal event of the operation op is handled in this step
Supported(op) == op.kind = "install" => op.ty = "zip"
Ends(op) == op \in ops /\ op \notin ops' /\ Supported(op)
Queue(kind) == IF kind = "install" THEN installs ELSE uninstalls
QueueNext(kind) == IF kind = "install" THEN installs' ELSE uninstalls'
EndsOk(op) ==
  /\ Ends(op)
  /\ \A i \in 1..Len(QueueNext(op.kind)) : QueueNext(op.kind)[i].tid # op.tid
EndsFailed(op) ==
  /\ Ends(op)
  /\ \E i \in 1..Len(QueueNext(op.kind)) : QueueNext(op.kind)[i].tid = op.tid

\* C3: when a Running Install or Uninstall ends in an error, the task is
\* Failed afterwards, a ModManagerReady carrying the handle and a Warning
\* are in flight, and the handle is still in exactly one place.
C3_FailureReturnsHandle ==
  [][\A op \in HandleOps :
       EndsFailed(op) =>
         /\ \E i \in 1..Len(QueueNext(op.kind)) :
              /\ QueueNext(op.kind)[i].tid = op.tid
              /\ QueueNext(op.kind)[i].state = "Failed"
         /\ CopiesIn(M("ModManagerReady"), msgs') = Copies("ModManagerReady") + 1
         /\ CopiesIn(M("Warning"), msgs') = Copies("Warning") + 1
         /\ HandleCount' = HandleCount]_vars

\* C3 witness: a Failed task sits in a queue, the handle travels in a
\* ModManagerReady, and a Ready task is still waiting to be started.
C3_Witness ==
  /\ \E i \in 1..Len(uninstalls) : uninstalls[i].state = "Failed"
  /\ Copies("ModManagerReady") = 1
  /\ Ready(installs) \cup Ready(uninstalls) # {}

Started(kind) == {op \in ops' \ ops : op.kind = kind}
HandlesModManagerReady ==
  CopiesIn(M("ModManagerReady"), msgs') < Copies("ModManagerReady")

\* C4: when ModManagerReady is handled and the uninstall queue holds a Ready
\* task, an Uninstall is started and no Install is; an Install is started
\* (by any handler) only when the uninstall queue holds no Ready task.
C4_UninstallFirst ==
  [][/\ (HandlesModManagerReady /\ Ready(uninstalls) # {}) =>
          (Started("uninstall") # {} /\ Started("install") = {})
     /\ Started("install") # {} => Ready(uninstalls) = {}]_vars

\* C4 witness: an Uninstall is Running while a Ready Install that was
\* queued before it (the Uninstall is the latest one created) keeps waiting.
C4_Witness ==
  /\ Ready(installs) # {}
  /\ \E i \in Running(uninstalls) :
       uninstalls[i].tid = next_tid["uninstall"] - 1
  /\ next_tid["uninstall"] > 2

Drained ==
  /\ installs = <<>> /\ uninstalls = <<>>
  /\ ~need_current_mods_update /\ ~need_records_update
  /\ mod_manager

\* every operation started so far is one that delivers a terminal event
AllOpsDeliver ==
  /\ \A op \in ops : Supported(op)
  /\ \A i \in Running(installs) : installs[i].ty = "zip"

\* C6: if every started operation delivers its terminal event (and the
\* requests are finitely many), then from some point on both queues are
\* empty, no refresh is pending and the handle is parked.
C6_QueuesDrain == []AllOpsDeliver => <>[]Drained

\* the InstallMod messages in flight
InstallRequests ==
  {m \in BagToSet(msgs) : m.type = "InstallMod"}

\* C19: when the terminal event of a Download is an error the orchestrator
\* keeps operating (update returns, nothing halts), the failure is recorded
\* on the Download, the other downloads and the two queues are left as they
\* are and no InstallMod is issued for it.
C19_DownloadFailureSurvives ==
  [][\A op \in ops :
       ( /\ op.kind = "download"
         /\ Position(downloads, op.id) # 0
         /\ GetModUpdated(op, FALSE) ) =>
          /\ ~crashed'
          /\ InstallRequests' = InstallRequests
          /\ installs' = installs /\ uninstalls' = uninstalls
          /\ \A i \in DOMAIN downloads :
               i # Position(downloads, op.id) =>
                 /\ i \in DOMAIN downloads'
                 /\ downloads'[i] = downloads[i]]_vars

\* a step of a Download: it is started, or its terminal event is handled
DownloadStep ==
  \/ \E id \in Ids : GetMod(id)
  \/ \E op \in ops : \E ok \in BOOLEAN : GetModUpdated(op, ok)

EntryNames == { <<"a.txt">>,
                <<"dir", "/", "b.txt">>,
                <<"dir", "/">>,
                <<"..", "\\", "a.txt">> }

\* an archive: up to MaxEntries entries with distinct names
Archives ==
  {a \in UNION {[1..n -> EntryNames] : n \in 0..MaxEntries} :
     \A i, j \in DOMAIN a : a[i] = a[j] => i = j}

\* the versions a registry may give
Versions == {"1.0"}

\* path.replace('\\', "/")
ReplaceBackslash(name) ==
  [i \in DOMAIN name |-> IF name[i] = "\\" THEN "/" ELSE name[i]]

\* .split('/'): the segments between the separators, "" for an empty one
RECURSIVE Split(_)
Split(name) ==
  IF name = <<>> THEN <<"">>
  ELSE IF Head(name) = "/" THEN <<"">> \o Split(Tail(name))
  ELSE <<Head(name)>> \o Tail(Split(Tail(name)))

\* the segment kept as it is
Sanitize_keeps_dots(segment) == segment

\* sanitize_filename::sanitize on one segment: a segment made of dots only
\* is reserved and becomes empty
Sanitize(segment) == IF segment \in {".", ".."} THEN "" ELSE segment

\* collect::<PathBuf>(): empty components leave no trace in the path
Collect(segments) == SelectSeq(segments, LAMBDA c : c # "")

\* fn sanitize_file_path
sanitize_file_path(name) ==
  LET segments == Split(ReplaceBackslash(name)) IN
    Collect([i \in DOMAIN segments |-> Sanitize(segments[i])])

\* record.files of the archive: the sanitized path of every entry
SanitizedPaths(archive) ==
  [k \in DOMAIN archive |-> sanitize_file_path(archive[k])]

\* ------------------------------------------------------------------------
\* The manifest file as JSON (serde_json on Records, #[serde(flatten)])
\* ------------------------------------------------------------------------
\* a u64 written in decimal, most significant digit first, and read back
RECURSIVE Digits(_)
Digits(n) == IF n < 10 THEN <<n>> ELSE Append(Digits(n \div 10), n % 10)
RECURSIVE Number(_)
Number(digits) ==
  IF Len(digits) = 1 THEN digits[1]
  ELSE 10 * Number(SubSeq(digits, 1, Len(digits) - 1)) + digits[Len(digits)]

\* a PathBuf written as a string: its components joined by the separator
RECURSIVE PathString(_)
PathString(path) ==
  IF path = <<>> THEN <<>>
  ELSE IF Len(path) = 1 THEN path
  ELSE <<Head(path), "/">> \o PathString(Tail(path))

\* PathBuf from a string: the components between the separators
PathFrom(string) == Collect(Split(string))

\* paths written as the last component only (file_name)
to_vec_file_name(records) ==
  [id \in {i \in Ids : records[i].present} |->
     [metadata |-> "null",
      update_time |-> Digits(records[id].update_time),
      version |-> records[id].version,
      files |-> [k \in DOMAIN records[id].files |->
                  LET path == records[id].files[k] IN
                    IF path = <<>> THEN <<>> ELSE <<path[Len(path)]>>]]]

\* serde_json::to_vec(&records): one member per Record, keyed by its id
to_vec(records) ==
  [id \in {i \in Ids : records[i].present} |->
     [metadata |-> "null",
      update_time |-> Digits(records[id].update_time),
      version |-> records[id].version,
      files |-> [k \in DOMAIN records[id].files |->
                  PathString(records[id].files[k])]]]

\* serde_json::from_slice: the Records value of a document
from_slice(doc) ==
  [id \in Ids |->
     IF id \in DOMAIN doc
     THEN [present |-> TRUE,
           update_time |-> Number(doc[id].update_time),
           version |-> doc[id].version,
           files |-> [k \in DOMAIN doc[id].files |->
                       PathFrom(doc[id].files[k])]]
     ELSE NoRecord]

\* what records() reads once write_records(records) has written the file
write_records(records) == from_slice(to_vec(records))

\* ZipEntry::dir(): the name ends with '/'
IsDirEntry(name) == name # <<>> /\ name[Len(name)] = "/"

\* Path::exists / Path::is_dir on res_mods_path.join(path)
Exists(path) == path \in files \cup dirs
Parent(path) == SubSeq(path, 1, Len(path) - 1)
Prefixes(path) == {SubSeq(path, 1, k) : k \in 0..Len(path)}

MkDir(path) == [kind |-> "mkdir", path |-> path]
Write(path) == [kind |-> "write", path |-> path]

\* the loop going on after a conflict and reporting the last one it met
RECURSIVE Scan_last_conflict(_, _, _)
Scan_last_conflict(entries, tasks, paths) ==
  IF entries = <<>>
  THEN [res |-> "running", file |-> <<>>, tasks |-> tasks, files |-> paths]
  ELSE LET path == sanitize_file_path(Head(entries))
           rest == Scan_last_conflict(Tail(entries), tasks, Append(paths, path))
       IN
    IF IsDirEntry(Head(entries))
    THEN Scan_last_conflict(Tail(entries),
              IF Exists(path) THEN tasks ELSE Append(tasks, MkDir(path)),
              Append(paths, path))
    ELSE IF Exists(path)
    THEN IF rest.res = "FileConflict" THEN rest
         ELSE [res |-> "FileConflict", file |-> path, tasks |-> <<>>,
               files |-> Append(paths, path)]
    ELSE Scan_last_conflict(Tail(entries), Append(tasks, Write(path)),
                            Append(paths, path))

\* the loop treating an existing directory like an existing file
RECURSIVE Scan_dir_conflict(_, _, _)
Scan_dir_conflict(entries, tasks, paths) ==
  IF entries = <<>>
  THEN [res |-> "running", file |-> <<>>, tasks |-> tasks, files |-> paths]
  ELSE LET path == sanitize_file_path(Head(entries)) IN
    IF Exists(path)
    THEN [res |-> "FileConflict", file |-> path, tasks |-> <<>>,
          files |-> Append(paths, path)]
    ELSE Scan_dir_conflict(Tail(entries),
              Append(tasks, IF IsDirEntry(Head(entries))
                            THEN MkDir(path) ELSE Write(path)),
              Append(paths, path))

\* the loop skipping an existing file the way it skips an existing directory
RECURSIVE Scan_skip_existing(_, _, _)
Scan_skip_existing(entries, tasks, paths) ==
  IF entries = <<>>
  THEN [res |-> "running", file |-> <<>>, tasks |-> tasks, files |-> paths]
  ELSE LET path == sanitize_file_path(Head(entries)) IN
    IF Exists(path)
    THEN Scan_skip_existing(Tail(entries), tasks, Append(paths, path))
    ELSE Scan_skip_existing(Tail(entries),
              Append(tasks, IF IsDirEntry(Head(entries))
                            THEN MkDir(path) ELSE Write(path)),
              Append(paths, path))

\* the loop recording only the entries it prepares a task for
RECURSIVE Scan_records_new(_, _, _)
Scan_records_new(entries, tasks, paths) ==
  IF entries = <<>>
  THEN [res |-> "running", file |-> <<>>, tasks |-> tasks, files |-> paths]
  ELSE LET path == sanitize_file_path(Head(entries)) IN
    IF IsDirEntry(Head(entries))
    THEN Scan_records_new(Tail(entries),
              IF Exists(path) THEN tasks ELSE Append(tasks, MkDir(path)),
              IF Exists(path) THEN paths ELSE Append(paths, path))
    ELSE IF Exists(path)
    THEN [res |-> "FileConflict", file |-> path, tasks |-> <<>>,
          files |-> Append(paths, path)]
    ELSE Scan_records_new(Tail(entries), Append(tasks, Write(path)),
                          Append(paths, path))

\* the loop of install_zip_mod over the entries: every sanitized path is
\* recorded, an existing directory is skipped, an existing file destination
\* ends the install with FileConflict, everything else becomes a deferred
\* task; nothing is written yet
RECURSIVE Scan(_, _, _)
Scan(entries, tasks, paths) ==
  IF entries = <<>>
  THEN [res |-> "running", file |-> <<>>, tasks |-> tasks, files |-> paths]
  ELSE LET path == sanitize_file_path(Head(entries)) IN
    IF IsDirEntry(Head(entries))
    THEN Scan(Tail(entries),
              IF Exists(path) THEN tasks ELSE Append(tasks, MkDir(path)),
              Append(paths, path))
    ELSE IF Exists(path)
    THEN [res |-> "FileConflict", file |-> path, tasks |-> <<>>,
          files |-> Append(paths, path)]
    ELSE Scan(Tail(entries), Append(tasks, Write(path)), Append(paths, path))

\* fs::create_dir_all succeeds unless a component of the path is a file;
\* File::options().create(true).truncate(true).write(true).open succeeds
\* if the parent is a directory and the path is not one
TaskOk(task) ==
  IF task.kind = "mkdir"
  THEN Prefixes(task.path) \cap files = {}
  ELSE Parent(task.path) \in dirs /\ task.path \notin dirs

\* install_zip_mod is called: the archive is opened and the record prepared
install_zip_mod(id, archive, version) ==
  /\ job = NoJob
  /\ job' = [NoJob EXCEPT !.op = "install", !.stage = "scan", !.id = id,
                          !.version = version, !.entries = archive]
  /\ removed' = IF /\ last.op = "uninstall" /\ removed.id = id
                   /\ manifest[id].files = SanitizedPaths(archive)
                THEN removed ELSE NoRemoved
  /\ UNCHANGED <<files, dirs, manifest, intact, last, manifest_exists>>
  /\ UNCHANGED <<appVars, cacheVars>>

\* the scan writing the Record as soon as no entry conflicts
install_scan_writes_manifest ==
  /\ job.op = "install" /\ job.stage = "scan"
  /\ LET scan == Scan(job.entries, <<>>, <<>>) IN
       /\ last' = Result("install", scan.res, scan.file)
       /\ job' = IF scan.res = "FileConflict" THEN NoJob
                 ELSE [job EXCEPT !.stage = "tasks", !.entries = <<>>,
                       !.tasks = scan.tasks, !.files = scan.files,
                       !.writes = {t.path : t \in {scan.tasks[k] :
                                     k \in {j \in DOMAIN scan.tasks :
                                       scan.tasks[j].kind = "write"}}}]
       /\ manifest' = IF scan.res = "FileConflict" THEN manifest
                      ELSE [manifest EXCEPT
                              ![job.id] = Record(job.version, scan.files)]
  /\ UNCHANGED <<files, dirs, intact, removed, manifest_exists>>
  /\ UNCHANGED <<appVars, cacheVars>>

\* the scan writing each file as it meets its entry: at a conflict the
\* paths recorded before it are on disk
install_scan_eager ==
  /\ job.op = "install" /\ job.stage = "scan"
  /\ LET scan == Scan(job.entries, <<>>, <<>>) IN
       /\ last' = Result("install", scan.res, scan.file)
       /\ job' = IF scan.res = "FileConflict" THEN NoJob
                 ELSE [job EXCEPT !.stage = "tasks", !.entries = <<>>,
                       !.tasks = scan.tasks, !.files = scan.files,
                       !.writes = {t.path : t \in {scan.tasks[k] :
                                     k \in {j \in DOMAIN scan.tasks :
                                       scan.tasks[j].kind = "write"}}}]
       /\ files' = IF scan.res = "FileConflict"
                   THEN files \cup {scan.files[k] : k \in
                          {j \in DOMAIN scan.files :
                             scan.files[j] \notin dirs}}
                   ELSE files
  /\ UNCHANGED <<dirs, manifest, intact, removed, manifest_exists>>
  /\ UNCHANGED <<appVars, cacheVars>>

\* install_zip_mod, "for i in 0..archive.len()": the entries are scanned,
\* nothing is written yet
install_scan ==
  /\ job.op = "install" /\ job.stage = "scan"
  /\ LET scan == Scan(job.entries, <<>>, <<>>) IN
       /\ last' = Result("install", scan.res, scan.file)
       /\ job' = IF scan.res = "FileConflict" THEN NoJob
                 ELSE [job EXCEPT !.stage = "tasks", !.entries = <<>>,
                       !.tasks = scan.tasks, !.files = scan.files,
                       !.writes = {t.path : t \in {scan.tasks[k] :
                                     k \in {j \in DOMAIN scan.tasks :
                                       scan.tasks[j].kind = "write"}}}]
  /\ UNCHANGED <<files, dirs, manifest, intact, removed, manifest_exists>>
  /\ UNCHANGED <<appVars, cacheVars>>

\* install_zip_mod, "for task in tasks { task.await?; }": one task
install_task ==
  /\ job.op = "install" /\ job.stage = "tasks" /\ job.tasks # <<>>
  /\ LET task == Head(job.tasks) IN
       IF TaskOk(task)
       THEN /\ job' = [job EXCEPT !.tasks = Tail(@)]
            /\ IF task.kind = "mkdir"
               THEN dirs' = dirs \cup Prefixes(task.path) /\ UNCHANGED files
               ELSE files' = files \cup {task.path} /\ UNCHANGED dirs
            /\ UNCHANGED last
       ELSE /\ job' = NoJob
            /\ last' = [last EXCEPT !.res = "Io"]
            /\ UNCHANGED <<files, dirs>>
  /\ UNCHANGED <<manifest, intact, removed, manifest_exists>>
  /\ UNCHANGED <<appVars, cacheVars>>

\* the Record written into a fresh Records value instead of the one read
install_commit_alone ==
  /\ job.op = "install" /\ job.stage = "tasks" /\ job.tasks = <<>>
  /\ manifest' = write_records(
                   [[i \in Ids |-> NoRecord] EXCEPT
                      ![job.id] = Record(job.version, job.files)])
  /\ intact' = [intact EXCEPT ![job.id] = TRUE]
  /\ last' = [last EXCEPT !.res = "ok"]
  /\ job' = NoJob
  /\ UNCHANGED <<files, dirs, removed, manifest_exists>>
  /\ UNCHANGED <<appVars, cacheVars>>

\* install_zip_mod, last part: records(), insert, write_records
install_commit ==
  /\ job.op = "install" /\ job.stage = "tasks" /\ job.tasks = <<>>
  /\ manifest' = write_records(
                   [manifest EXCEPT ![job.id] = Record(job.version, job.files)])
  /\ intact' = [intact EXCEPT ![job.id] = TRUE]
  /\ last' = [last EXCEPT !.res = "ok"]
  /\ job' = NoJob
  /\ UNCHANGED <<files, dirs, removed, manifest_exists>>
  /\ UNCHANGED <<appVars, cacheVars>>

\* the loop ending at the first path that is missing or a directory
RECURSIVE RemoveFiles_break(_, _)
RemoveFiles_break(paths, fs) ==
  IF paths = <<>> THEN fs
  ELSE IF Head(paths) \notin fs \cup dirs THEN fs
  ELSE IF Head(paths) \in dirs THEN fs
  ELSE RemoveFiles_break(Tail(paths), fs \ {Head(paths)})

\* the loop of uninstall_mod over record.files: a missing path and a
\* directory are skipped, a regular file is removed
RECURSIVE RemoveFiles(_, _)
RemoveFiles(paths, fs) ==
  IF paths = <<>> THEN fs
  ELSE IF Head(paths) \notin fs \cup dirs THEN RemoveFiles(Tail(paths), fs)
  ELSE IF Head(paths) \in dirs THEN RemoveFiles(Tail(paths), fs)
  ELSE RemoveFiles(Tail(paths), fs \ {Head(paths)})

\* uninstall_mod writing an empty Records value when the id has no Record
uninstall_mod_default(id) ==
  /\ job = NoJob
  /\ IF ~manifest[id].present
     THEN /\ manifest' = write_records([i \in Ids |-> NoRecord])
          /\ last' = Result("uninstall", "false", <<>>)
          /\ UNCHANGED files
     ELSE /\ files' = RemoveFiles(manifest[id].files, files)
          /\ last' = Result("uninstall", "true", <<>>)
          /\ UNCHANGED manifest
  /\ intact' = [i \in Ids |-> FALSE]
  /\ removed' = IF manifest[id].present /\ intact[id]
                THEN [id |-> id, files |-> files] ELSE NoRemoved
  /\ UNCHANGED <<dirs, job, manifest_exists>>
  /\ UNCHANGED <<appVars, cacheVars>>

\* uninstall_mod removing the Record of the mod it has uninstalled
uninstall_mod_forgets(id) ==
  /\ job = NoJob
  /\ IF ~manifest[id].present
     THEN /\ manifest' = write_records(manifest)
          /\ last' = Result("uninstall", "false", <<>>)
          /\ UNCHANGED files
     ELSE /\ files' = RemoveFiles(manifest[id].files, files)
          /\ last' = Result("uninstall", "true", <<>>)
          /\ manifest' = write_records([manifest EXCEPT ![id] = NoRecord])
  /\ intact' = [i \in Ids |-> FALSE]
  /\ removed' = IF manifest[id].present /\ intact[id]
                THEN [id |-> id, files |-> files] ELSE NoRemoved
  /\ UNCHANGED <<dirs, job, manifest_exists>>
  /\ UNCHANGED <<appVars, cacheVars>>

\* ModManager::uninstall_mod
uninstall_mod(id) ==
  /\ job = NoJob
  /\ IF ~manifest[id].present
     THEN /\ manifest' = write_records(manifest)
          /\ last' = Result("uninstall", "false", <<>>)
          /\ UNCHANGED files
     ELSE /\ files' = RemoveFiles(manifest[id].files, files)
          /\ last' = Result("uninstall", "true", <<>>)
          /\ UNCHANGED manifest
  /\ intact' = [i \in Ids |-> FALSE]
  /\ removed' = IF manifest[id].present /\ intact[id]
                THEN [id |-> id, files |-> files] ELSE NoRemoved
  /\ UNCHANGED <<dirs, job, manifest_exists>>
  /\ UNCHANGED <<appVars, cacheVars>>

FsNext ==
  \/ \E id \in Ids : \E archive \in Archives : \E version \in Versions :
       install_zip_mod(id, archive, version)
  \/ install_scan
  \/ install_task
  \/ install_commit
  \/ \E id \in Ids : uninstall_mod(id)

FsSpec == Init /\ [][FsNext]_vars

\* ------------------------------------------------------------------------
\* Properties of the record store
\* ------------------------------------------------------------------------
Range(seq) == {seq[i] : i \in DOMAIN seq}
FileEntries(archive) == {k \in DOMAIN archive : ~IsDirEntry(archive[k])}
First(set) == CHOOSE k \in set : \A j \in set : k <= j
\* the file entries of the archive whose destination exists
Colliding(archive) ==
  {k \in FileEntries(archive) : Exists(sanitize_file_path(archive[k]))}

\* C7: uninstall(id) run when id has a Record (written by a successful
\* install of id) removes every regular file the Record lists, removes no
\* path the Record does not list and removes no directory.
C7_UninstallRemovesListed ==
  [][\A id \in Ids :
       (uninstall_mod(id) /\ manifest[id].present) =>
          /\ files \ files' \subseteq Range(manifest[id].files)
          /\ Range(manifest[id].files) \cap files' = {}
          /\ dirs' = dirs]_vars

\* C7 witness: an uninstall has removed the files of a Record that lists
\* at least a file and a directory, and a file of another mod is still there.
C7_Witness ==
  /\ last = Result("uninstall", "true", <<>>)
  /\ files # {}
  /\ \E id \in Ids :
       /\ manifest[id].present
       /\ Range(manifest[id].files) \cap dirs # {}
       /\ Range(manifest[id].files) \ dirs # {}
       /\ Range(manifest[id].files) \cap files = {}

\* C8: an install whose file entries collide with no existing file (the
\* scan has passed) ends with success, has then created every file entry of
\* the archive and has written the Record with its version and files list.
C8_InstallCreatesFiles ==
  [][(job.op = "install" /\ job.stage = "tasks" /\ job'.op = "none") =>
       /\ last'.res = "ok"
       /\ job.writes \subseteq files'
       /\ manifest'[job.id] = Record(job.version, job.files)]_vars

\* C9: if the destination of some file entry exists when install runs, the
\* install fails with FileConflict naming the sanitized path of such an
\* entry (the first one in entry order) and the manifest is unchanged.
C9_ConflictLeavesManifest ==
  [][(install_scan /\ Colliding(job.entries) # {}) =>
       /\ last'.res = "FileConflict"
       /\ last'.file =
            sanitize_file_path(job.entries[First(Colliding(job.entries))])
       /\ manifest' = manifest
       /\ job' = NoJob]_vars

\* C9 witness: an install has failed with FileConflict on a file that another
\* mod has installed, and the mod that failed has no Record.
C9_Witness ==
  /\ last.op = "install" /\ last.res = "FileConflict"
  /\ last.file \in files
  /\ \E id \in Ids : ~manifest[id].present
  /\ \E id \in Ids : manifest[id].present /\ last.file \in Range(manifest[id].files)

\* C10: installing under id an archive whose paths are those of the Record
\* of id, written by a successful install after which no uninstall has run,
\* fails with FileConflict on the first file entry of the archive.
C10_SecondInstallConflicts ==
  [][( /\ install_scan
       /\ intact[job.id]
       /\ manifest[job.id].files = SanitizedPaths(job.entries)
       /\ FileEntries(job.entries) # {} ) =>
       /\ last'.res = "FileConflict"
       /\ last'.file =
            sanitize_file_path(job.entries[First(FileEntries(job.entries))])]_vars

\* C10 witness: the Record of id is intact, lists a directory before its
\* first file, and an install has just failed with FileConflict on that file.
C10_Witness ==
  /\ last.op = "install" /\ last.res = "FileConflict"
  /\ \E id \in Ids :
       /\ intact[id] /\ manifest[id].present
       /\ Len(manifest[id].files) = 2
       /\ manifest[id].files[1] \in dirs
       /\ manifest[id].files[2] = last.file
       /\ \A other \in Ids \ {id} : ~manifest[other].present

\* C11: an install of id has succeeded, then uninstall(id) has succeeded,
\* and the same archive (an archive with the paths of the Record) is
\* installed as id again: this install succeeds, the files on disk are again
\* those there were after the first install, and the files list of the
\* Record is the one the first install wrote.
C11_ReinstallAfterUninstall ==
  [][(job.op = "install" /\ job'.op = "none" /\ removed.id = job.id) =>
       /\ last'.res = "ok"
       /\ files' = removed.files
       /\ manifest'[job.id].present
       /\ manifest'[job.id].files = manifest[job.id].files]_vars

\* C11 witness: the archive, with a directory entry and a file entry, has
\* been installed again after the uninstall and its file is back.
C11_Witness ==
  /\ job = NoJob /\ removed.id # "-"
  /\ last = Result("install", "ok", <<>>)
  /\ files = removed.files
  /\ Range(manifest[removed.id].files) \cap dirs # {}
  /\ Range(manifest[removed.id].files) \cap files # {}

\* C12: within one install the manifest is written only once every task of
\* the archive has run with success (no task is left and every path of the
\* archive exists); an install that ends with a failure leaves the manifest
\* as it was.
C12_ManifestAfterTasks ==
  [][/\ (manifest' # manifest) =>
          /\ job.op = "install" /\ job.stage = "tasks" /\ job.tasks = <<>>
          /\ job.writes \subseteq files
          /\ \A path \in Range(job.files) : Exists(path)
          /\ last'.res = "ok"
     /\ (job.op = "install" /\ job'.op = "none" /\ last'.res # "ok") =>
          manifest' = manifest]_vars

\* C12 witness: an install has failed in a task after another task of it
\* had written a file, and the manifest has no Record.
C12_Witness ==
  /\ job = NoJob /\ last.op = "install" /\ last.res = "Io"
  /\ files # {}
  /\ \A id \in Ids : ~manifest[id].present

\* C13: uninstall(id) for an id without a Record reports false, deletes no
\* file (and no directory) and leaves the manifest mapping as it was.
C13_UninstallUnknown ==
  [][\A id \in Ids :
       (uninstall_mod(id) /\ ~manifest[id].present) =>
          /\ last' = Result("uninstall", "false", <<>>)
          /\ files' = files /\ dirs' = dirs
          /\ manifest' = manifest]_vars

\* C13 witness: an uninstall has reported false while another mod has a
\* Record with a file in a directory, and that file is still there.
C13_Witness ==
  /\ last = Result("uninstall", "false", <<>>)
  /\ \E id \in Ids : ~manifest[id].present
  /\ \E id \in Ids :
       /\ manifest[id].present
       /\ \E k \in DOMAIN manifest[id].files :
            /\ Len(manifest[id].files[k]) = 2
            /\ manifest[id].files[k] \in files

\* C14: an uninstall(id) that succeeds leaves the manifest mapping as it
\* was: the Record of id is still there with its version and files list,
\* and no other Record has changed.
C14_UninstallKeepsRecord ==
  [][\A id \in Ids :
       (uninstall_mod(id) /\ manifest[id].present) =>
          /\ last' = Result("uninstall", "true", <<>>)
          /\ manifest'[id].present
          /\ manifest'[id].version = manifest[id].version
          /\ manifest'[id].files = manifest[id].files
          /\ manifest' = manifest]_vars

\* C14 witness: after an uninstall that succeeded no file is left, and the
\* Record of the uninstalled mod still lists its version and a file.
C14_Witness ==
  /\ last = Result("uninstall", "true", <<>>)
  /\ files = {}
  /\ \E id \in Ids :
       /\ manifest[id].present /\ manifest[id].version = "1.0"
       /\ Range(manifest[id].files) \ dirs # {}

\* the step is the successful end of the install under way
InstallEndsOk ==
  /\ job.op = "install" /\ job.stage = "tasks"
  /\ job' = NoJob /\ last'.res = "ok"

\* C31: a successful install of id leaves in the manifest one Record of
\* id, with the given version, the time of the install and the files of
\* the archive, whether or not id had a Record before, and leaves the
\* Record (or absence of a Record) of every other id as it was.
C31_InstallWritesOneRecord ==
  [][InstallEndsOk =>
       /\ manifest'[job.id] = Record(job.version, job.files)
       /\ \A other \in Ids \ {job.id} :
            manifest'[other] = manifest[other]]_vars

\* an install has just succeeded for an id while the other id keeps a
\* Record with other files
C31_Witness ==
  /\ last = Result("install", "ok", <<>>)
  /\ job = NoJob
  /\ \A id \in Ids : manifest[id].present
  /\ manifest["m1"].files # manifest["m2"].files
  /\ \E id \in Ids : intact[id] /\ manifest[id].files # <<>>

\* C32: after a successful install the files of the Record are the
\* sanitized paths of all the entries of the archive, files and
\* directories, those of directories that existed before included, in the
\* order of the archive and one per entry.
C32_RecordListsEveryEntry ==
  [][/\ (job.op = "install" /\ job.stage = "scan" /\ job'.stage = "tasks")
          => /\ Len(job'.files) = Len(job.entries)
             /\ \A k \in DOMAIN job.entries :
                  job'.files[k] = sanitize_file_path(job.entries[k])
     /\ (job.stage = "tasks" /\ job'.stage = "tasks")
          => job'.files = job.files
     /\ InstallEndsOk => manifest'[job.id].files = job.files]_vars

\* both mods have been installed from an archive with the directory entry
\* "dir/" alone: the later install found the directory there and lists it
C32_Witness ==
  /\ last = Result("install", "ok", <<>>)
  /\ \A id \in Ids :
       manifest[id].present /\ manifest[id].files = << <<"dir">> >>
  /\ <<"dir">> \in dirs

\* C34: an install that fails with FileConflict fails in its scan, where
\* every conflict check of the archive is made: from its call to the
\* failure it creates no file and no directory and executes no write, so
\* it truncates no existing file.
C34_ConflictBeforeWrites ==
  [][/\ (job = NoJob /\ job'.op = "install")
          => job'.stage = "scan" /\ UNCHANGED <<files, dirs>>
     /\ (job.op = "install" /\ job.stage = "scan")
          => UNCHANGED <<files, dirs>>
     /\ (job.op = "install" /\ job' = NoJob
         /\ last'.res = "FileConflict")
          => job.stage = "scan"]_vars

\* an install has failed with FileConflict on dir/b.txt, which is on disk,
\* and a.txt is not on disk
C34_Witness ==
  /\ last = Result("install", "FileConflict", <<"dir", "b.txt">>)
  /\ job = NoJob
  /\ <<"dir", "b.txt">> \in files
  /\ <<"a.txt">> \notin files

\* C35: when an uninstall can run, no file on disk is listed by the
\* Records of two different ids, so uninstall(X) deletes no file that the
\* latest successful install of another id Y has written.
C35_NoSharedFile ==
  job = NoJob =>
    \A x, y \in Ids :
      x # y =>
        files \cap Range(manifest[x].files) \cap Range(manifest[y].files) = {}

\* ------------------------------------------------------------------------
\* Part III: the manifest file on its own (ensure_records, write_records,
\* records), from a resource-mod directory that has no manifest yet
\* ------------------------------------------------------------------------
\* the update times and files lists of the Records written
Times == {0, 1, Now}
FileLists == { <<>>, << <<"a.txt">> >>, << <<"dir">>, <<"dir", "b.txt">> >> }
RecordValues ==
  {NoRecord} \cup
  {[present |-> TRUE, update_time |-> t, version |-> v, files |-> f] :
     t \in Times, v \in Versions, f \in FileLists}
RecordsValues == [Ids -> RecordValues]

ManifestInit ==
  /\ CacheInit
  /\ AppInit
  /\ files = {} /\ dirs = {<<>>}
  /\ manifest = [i \in Ids |-> NoRecord]
  /\ manifest_exists = FALSE
  /\ job = NoJob
  /\ intact = [i \in Ids |-> FALSE]
  /\ last = Result("none", "none", <<>>)
  /\ removed = NoRemoved

\* ensure_records opening the file with create(true).truncate(true)
ensure_records_truncates ==
  /\ job = NoJob
  /\ manifest' = from_slice(to_vec([i \in Ids |-> NoRecord]))
  /\ manifest_exists' = TRUE
  /\ last' = Result("ensure_records", "ok", <<>>)
  /\ UNCHANGED <<files, dirs, job, intact, removed>>
  /\ UNCHANGED <<appVars, cacheVars>>

\* ModManager::ensure_records: create_new(true); AlreadyExists is Ok(())
ensure_records ==
  /\ job = NoJob
  /\ IF manifest_exists
     THEN UNCHANGED manifest
     ELSE manifest' = from_slice(to_vec([i \in Ids |-> NoRecord]))
  /\ manifest_exists' = TRUE
  /\ last' = Result("ensure_records", "ok", <<>>)
  /\ UNCHANGED <<files, dirs, job, intact, removed>>
  /\ UNCHANGED <<appVars, cacheVars>>

\* ModManager::write_records(&records), then records(): the manifest exists
\* by then, PrepareModManager has run ensure_records
store_records(records) ==
  /\ job = NoJob /\ manifest_exists
  /\ manifest' = write_records(records)
  /\ last' = Result("write_records", "ok", <<>>)
  /\ UNCHANGED <<files, dirs, job, intact, removed, manifest_exists>>
  /\ UNCHANGED <<appVars, cacheVars>>

ManifestNext ==
  \/ ensure_records
  \/ \E records \in RecordsValues : store_records(records)

ManifestSpec == ManifestInit /\ [][ManifestNext]_vars

\* C15: ensure_records creates the manifest with an empty mapping when the
\* file is absent; when the file exists it succeeds and leaves the content
\* as it is, so that no Record written before is removed.
C15_EnsureRecords ==
  [][ensure_records =>
       /\ manifest_exists'
       /\ last'.res = "ok"
       /\ IF manifest_exists
          THEN manifest' = manifest
          ELSE \A id \in Ids : ~manifest'[id].present]_vars

\* C15 witness: ensure_records has run on a manifest that holds two Records
\* and both are still there.
C15_Witness ==
  /\ last = Result("ensure_records", "ok", <<>>)
  /\ manifest_exists
  /\ \A id \in Ids : manifest[id].present /\ manifest[id].files # <<>>

\* C16: for every Records mapping, writing it to the manifest and reading
\* the manifest back gives a mapping with the same keys and, for each key,
\* the same version, update_time and files sequence.
C16_RoundTrip ==
  [][\A records \in RecordsValues :
       store_records(records) =>
          /\ {id \in Ids : manifest'[id].present}
               = {id \in Ids : records[id].present}
          /\ \A id \in Ids : records[id].present =>
               /\ manifest'[id].version = records[id].version
               /\ manifest'[id].update_time = records[id].update_time
               /\ manifest'[id].files = records[id].files]_vars

\* C16 witness: a mapping with one key, a ten-digit update_time and a path
\* of two components has been written and read back.
C16_Witness ==
  /\ last = Result("write_records", "ok", <<>>)
  /\ manifest["m1"].present /\ ~manifest["m2"].present
  /\ manifest["m1"].update_time = Now
  /\ manifest["m1"].files = << <<"dir">>, <<"dir", "b.txt">> >>

\* ------------------------------------------------------------------------
\* Part IV: registry loading on its own (Message::LoadRegistries with any
\* list of sources, asked for more than once), from the orchestrator at
\* rest: handle parked, no registry, no message in flight
\* ------------------------------------------------------------------------
\* the number of LoadRegistries messages handled in a run
MaxLoads == 2

Schemes == {"https", "file", "data"}

\* registry documents: Registry::default() and two with one mod each
EmptyRegistry == [id \in {} |-> "zip"]
SourceDocs == {[id \in {"m1"} |-> "zip"], [id \in {"m2"} |-> "zip"]}

\* a source: its scheme and what fetching, decoding and parsing it gives
Urls ==
  {[scheme |-> s, ok |-> TRUE, doc |-> d] : s \in Schemes, d \in SourceDocs}
  \cup {[scheme |-> s, ok |-> FALSE, doc |-> EmptyRegistry] : s \in Schemes}
UrlLists == {<<u>> : u \in Urls} \cup {<<u, v>> : u \in Urls, v \in Urls}

RegistryInit ==
  /\ CacheInit
  /\ mod_manager = TRUE
  /\ installs = <<>> /\ uninstalls = <<>> /\ downloads = <<>>
  /\ registries = <<>>
  /\ need_current_mods_update = FALSE /\ need_records_update = FALSE
  /\ msgs = EmptyBag
  /\ ops = {}
  /\ next_tid = [k \in {"download", "install", "uninstall"} |-> 1]
  /\ requests = 0
  /\ crashed = FALSE
  /\ FsInit

\* the stream of one LoadRegistries: the sources not yet answered, in
\* order (FuturesOrdered); urls keeps the list the message carried
Stream(tid, urls) ==
  [kind |-> "registries", tid |-> tid, id |-> "-", ty |-> "-",
   urls |-> urls, left |-> urls]

\* Message::LoadRegistries { urls }: clear the registries, start the stream
LoadRegistriesFrom(urls) ==
  /\ ~crashed
  /\ requests < MaxLoads
  /\ requests' = requests + 1
  /\ registries' = <<>>
  /\ ops' = ops \cup {Stream(requests + 1, urls)}
  /\ UNCHANGED <<fsVars, cacheVars>>
  /\ UNCHANGED <<mod_manager, installs, uninstalls, downloads,
                 need_current_mods_update, need_records_update, msgs,
                 next_tid, crashed>>

\* the message one source of the stream ends with
SourceMessage(url) ==
  CASE url.scheme = "https" ->
         IF url.ok THEN [type |-> "RegistryLoaded", doc |-> url.doc]
         ELSE [type |-> "Warning", doc |-> EmptyRegistry]
    [] url.scheme = "file" ->
         \* Registry::load(..).await.unwrap_or_default()
         [type |-> "RegistryLoaded",
          doc |-> IF url.ok THEN url.doc ELSE EmptyRegistry]
    [] url.scheme = "data" ->
         IF url.ok THEN [type |-> "RegistryLoaded", doc |-> url.doc]
         ELSE [type |-> "Warning", doc |-> EmptyRegistry]

\* the next source of a stream is answered; Message::RegistryLoaded is
\* handled (push_front), a Message::Warning is left to its handler
SourceDone(op) ==
  /\ ~crashed
  /\ op \in ops /\ op.kind = "registries" /\ op.left # <<>>
  /\ LET m == SourceMessage(Head(op.left)) IN
       IF m.type = "RegistryLoaded"
       THEN /\ registries' = <<m.doc>> \o registries
            /\ UNCHANGED msgs
       ELSE /\ msgs' = Send(msgs, {M("Warning")})
            /\ UNCHANGED registries
  /\ ops' = (ops \ {op}) \cup {[op EXCEPT !.left = Tail(@)]}
  /\ UNCHANGED <<fsVars, cacheVars>>
  /\ UNCHANGED <<mod_manager, installs, uninstalls, downloads,
                 need_current_mods_update, need_records_update,
                 next_tid, requests, crashed>>

RegistryNext ==
  \/ \E urls \in UrlLists : LoadRegistriesFrom(urls)
  \/ \E op \in ops : SourceDone(op)
  \/ Warning

RegistrySpec == RegistryInit /\ [][RegistryNext]_vars

\* the mods of the valid documents of a list of sources
ModsOf(urls) ==
  UNION {DOMAIN urls[k].doc : k \in {j \in DOMAIN urls : urls[j].ok}}
\* the load asked for last
LastLoad == CHOOSE op \in ops : op.tid = requests

\* C17: once two loads R1 then R2 of valid registries have been asked for in
\* that order and every result of both has been handled, the mods the
\* orchestrator can resolve are exactly the mods of R2.
C17_ReplaceNotMerge ==
  ( /\ requests = 2
    /\ \A op \in ops : op.left = <<>>
    /\ \A op \in ops : \A k \in DOMAIN op.urls : op.urls[k].ok ) =>
     AvailableMods = ModsOf(LastLoad.urls)

\* C18: a source that fails, whatever its scheme, gives a Warning and adds
\* no registry; a source that does not fail adds its registry, whatever
\* the other sources of the list did.
C18_FailureIsolated ==
  [][\A op \in ops :
       SourceDone(op) =>
          IF Head(op.left).ok
          THEN /\ registries' = <<Head(op.left).doc>> \o registries
               /\ Copies("Warning")' = Copies("Warning")
          ELSE /\ registries' = registries
               /\ Copies("Warning")' = Copies("Warning") + 1]_vars

\* ------------------------------------------------------------------------
\* Part V (TaskSpec): the task objects Download, Install and Uninstall on
\* their own (src/src/download.rs, src/src/tasks/install.rs,
\* src/src/tasks/uninstall.rs): new, start, update and drop are called in
\* any order on one task object at a time, and the operation a start has
\* spawned reports its events.  downloads, installs and uninstalls hold the
\* task object, ops the spawned operations, last the call made last.
\* ------------------------------------------------------------------------
\* task objects created per kind over a run
MaxTasks == 2
\* chunks of one response body
MaxChunks == 3

Kinds == {"download", "install", "uninstall"}

\* u64 as f32: the nearest value with a 24 bit significand, ties to even
ToF32(n) ==
  IF n < 16777216 THEN n
  ELSE LET step == CHOOSE p \in {2, 4, 8, 16, 32, 64, 128, 256} :
                     /\ n \div p < 16777216
                     /\ n \div (p \div 2) >= 16777216
           q == n \div step
           r == n % step
           up == \/ 2 * r > step
                 \/ 2 * r = step /\ q % 2 = 1
       IN (IF up THEN q + 1 ELSE q) * step

\* an f32 progress value, kept as the quotient num / den of two f32 values
Quotient(num, den) == [num |-> num, den |-> den]
\* -1.
MinusOne == Quotient(-1, 1)
\* 0.
Zero == Quotient(0, 1)

\* the quotient taken whatever max is
Ratio_no_zero_case(current, max) == Quotient(ToF32(current), ToF32(max))

\* if max == 0 { -1. } else { current as f32 / max as f32 }
Ratio(current, max) ==
  IF max = 0 THEN MinusOne ELSE Quotient(ToF32(current), ToF32(max))

\* Download::new / Install::new / Uninstall::new; progress is a field of
\* the Running state only and reads Zero in the other states
new(tid) ==
  [tid |-> tid, id |-> "m1", state |-> "Ready", ty |-> "zip",
   progress |-> Zero]

\* start(): Running { progress: 0., .. } unless already Running
start(t) ==
  IF t.state = "Running" THEN t ELSE [StartTask(t) EXCEPT !.progress = Zero]

\* the events a task is updated with
ProgressEvent(current, max) ==
  [type |-> "progress", current |-> current, max |-> max, ok |-> TRUE]
FinishedEvent(ok) ==
  [type |-> "finished", current |-> 0, max |-> 0, ok |-> ok]
Events ==
  {ProgressEvent(c, m) : c \in {0, 1, 3}, m \in {0, 2}}
  \cup {FinishedEvent(ok) : ok \in BOOLEAN}

\* update(event)
update(t, event) ==
  IF event.type = "progress"
  THEN IF t.state = "Running"
       THEN [t EXCEPT !.progress = Ratio(event.current, event.max)]
       ELSE t
  ELSE [UpdateTask(t, event.ok) EXCEPT
          !.progress = IF t.state = "Running" THEN Zero ELSE @]

\* the queue holding the task objects of a kind
TaskQueue(kind) ==
  CASE kind = "download" -> downloads
    [] kind = "install" -> installs
    [] kind = "uninstall" -> uninstalls

\* the queues with the one of kind set to q
SetQueue(kind, q) ==
  /\ downloads' = IF kind = "download" THEN q ELSE downloads
  /\ installs' = IF kind = "install" THEN q ELSE installs
  /\ uninstalls' = IF kind = "uninstall" THEN q ELSE uninstalls

\* the call made last: its name, the event it carried, the task kind
Call(name, event, kind) == Result(name, event, <<kind>>)

\* DownloadUpdate / InstallUpdate / UninstallUpdate by name
EventName(event) ==
  IF event.type = "progress" THEN "progress"
  ELSE IF event.ok THEN "ok" ELSE "err"

\* what the task calls leave alone
TaskFrame ==
  /\ UNCHANGED <<mod_manager, registries, need_current_mods_update,
                 need_records_update, msgs, requests, crashed>>
  /\ UNCHANGED <<files, dirs, manifest, job, intact, removed,
                 manifest_exists>>
  /\ UNCHANGED cacheVars

TaskInit ==
  /\ CacheInit
  /\ mod_manager = TRUE
  /\ installs = <<>> /\ uninstalls = <<>> /\ downloads = <<>>
  /\ registries = <<>>
  /\ need_current_mods_update = FALSE /\ need_records_update = FALSE
  /\ msgs = EmptyBag
  /\ ops = {}
  /\ next_tid = [k \in Kinds |-> 1]
  /\ requests = 0
  /\ crashed = FALSE
  /\ FsInit

\* a task object is created
task_new(kind) ==
  /\ downloads = <<>> /\ installs = <<>> /\ uninstalls = <<>>
  /\ next_tid[kind] <= MaxTasks
  /\ SetQueue(kind, <<new(next_tid[kind])>>)
  /\ next_tid' = [next_tid EXCEPT ![kind] = @ + 1]
  /\ last' = Call("new", "-", kind)
  /\ UNCHANGED ops
  /\ TaskFrame

\* the operation Task::sip runs for a started task: download_to before its
\* request is answered, install_mod, uninstall_mod
Sip(kind, t) ==
  [kind |-> kind, tid |-> t.tid, stage |-> "get", current |-> 0, max |-> 0,
   known |-> FALSE, chunks |-> 0]

\* start() is called on the task object
task_start(kind) ==
  /\ TaskQueue(kind) # <<>>
  /\ LET t == TaskQueue(kind)[1] IN
       /\ SetQueue(kind, <<start(t)>>)
       /\ ops' = IF t.state = "Running" THEN ops ELSE ops \cup {Sip(kind, t)}
  /\ last' = Call("start", "-", kind)
  /\ UNCHANGED next_tid
  /\ TaskFrame

\* content_length() of a response: None, or Some of these
Lengths == {0, 2, 16777219}
\* bytes.len() of a chunk of the body
ChunkSizes == {1, 2, 16777217}

\* an event of the operation op reaches the task object it was started
\* for, if that object is still there, and is lost otherwise
Updated(op, event) ==
  /\ SetQueue(op.kind,
       IF TaskQueue(op.kind) # <<>> /\ TaskQueue(op.kind)[1].tid = op.tid
       THEN <<update(TaskQueue(op.kind)[1], event)>>
       ELSE TaskQueue(op.kind))
  /\ last' = Call(IF TaskQueue(op.kind) # <<>>
                      /\ TaskQueue(op.kind)[1].tid = op.tid
                   THEN "update" ELSE "lost",
                   EventName(event), op.kind)
  /\ UNCHANGED next_tid
  /\ TaskFrame

\* download_to: the response arrives; Progress { current: 0, max } is sent
download_response(op) ==
  /\ op \in ops /\ op.kind = "download" /\ op.stage = "get"
  /\ \E known \in BOOLEAN :
       \E length \in (IF known THEN Lengths ELSE {0}) :
         /\ ops' = (ops \ {op}) \cup
                     {[op EXCEPT !.stage = "body", !.max = length,
                                 !.known = known]}
         /\ Updated(op, ProgressEvent(0, length))

\* download_to: a chunk of the body arrives and is written; the body of a
\* response of known length has at most that many bytes
download_chunk(op) ==
  /\ op \in ops /\ op.kind = "download" /\ op.stage = "body"
  /\ op.chunks < MaxChunks
  /\ \E size \in ChunkSizes :
       /\ op.known => op.current + size <= op.max
       /\ ops' = (ops \ {op}) \cup
                   {[op EXCEPT !.current = @ + size, !.chunks = @ + 1]}
       /\ Updated(op, ProgressEvent(op.current + size, op.max))

\* the operation ends: Ok after the whole body (download) or the store
\* call (install, uninstall), Err at any await that fails
task_finished(op, ok) ==
  /\ op \in ops
  /\ (op.kind = "download" /\ ok) =>
       /\ op.stage = "body"
       /\ op.known => op.current = op.max
  /\ ops' = ops \ {op}
  /\ Updated(op, FinishedEvent(ok))

\* update() is called on a task object that is not Running
task_update(kind, event) ==
  /\ TaskQueue(kind) # <<>>
  /\ TaskQueue(kind)[1].state # "Running"
  /\ SetQueue(kind, <<update(TaskQueue(kind)[1], event)>>)
  /\ last' = Call("update", EventName(event), kind)
  /\ UNCHANGED <<ops, next_tid>>
  /\ TaskFrame

\* the operations dropping the task object aborts: those of a Download,
\* whose handle is kept with abort_on_drop(); the plain handle an Install
\* or Uninstall keeps aborts nothing when dropped
Aborted(kind, t) ==
  IF kind = "download"
  THEN {op \in ops : op.kind = kind /\ op.tid = t.tid}
  ELSE {}

\* the task object is dropped
task_drop(kind) ==
  /\ TaskQueue(kind) # <<>>
  /\ ops' = ops \ Aborted(kind, TaskQueue(kind)[1])
  /\ SetQueue(kind, <<>>)
  /\ last' = Call("drop", "-", kind)
  /\ UNCHANGED next_tid
  /\ TaskFrame

TaskNext ==
  \/ \E kind \in Kinds : task_new(kind)
  \/ \E kind \in Kinds : task_start(kind)
  \/ \E op \in ops : download_response(op)
  \/ \E op \in ops : download_chunk(op)
  \/ \E op \in ops, ok \in BOOLEAN : task_finished(op, ok)
  \/ \E kind \in Kinds, event \in Events : task_update(kind, event)
  \/ \E kind \in Kinds : task_drop(kind)

TaskSpec == TaskInit /\ [][TaskNext]_vars

\* ------------------------------------------------------------------------
\* Part VI (SanitizeSpec): sanitize_file_path on the entry names an archive
\* may carry, and the place under the resource-mod directory the entry is
\* created at (src/src/mod_manager.rs).  job holds the entry name and its
\* sanitized path, last the resolved location.
\* ------------------------------------------------------------------------
\* separators and segments of one entry name
MaxName == 4

Separators == {"/", "\\"}
Segments == {"a", ".", ".."}

\* the entry names: any separators, any segments between them
RawNames ==
  {n \in UNION {[1..k -> Separators \cup Segments] : k \in 0..MaxName} :
     \A i \in 1..(Len(n) - 1) : n[i] \in Separators \/ n[i+1] \in Separators}

\* the App with nothing under way
IdleApp ==
  /\ mod_manager = TRUE
  /\ installs = <<>> /\ uninstalls = <<>> /\ downloads = <<>>
  /\ registries = <<>>
  /\ need_current_mods_update = FALSE /\ need_records_update = FALSE
  /\ msgs = EmptyBag
  /\ ops = {}
  /\ next_tid = [k \in Kinds |-> 1]
  /\ requests = 0
  /\ crashed = FALSE

\* self.res_mods_path, by components from the root
ResMods == <<"game", "bin", "1", "res_mods">>

\* Path::join: an absolute argument replaces the base
Join(base, path) ==
  IF path # <<>> /\ path[1] \in Separators \cup {""} THEN path
  ELSE base \o path

\* the location the file system resolves a path to: ".." steps to the
\* parent, "." stays
RECURSIVE Resolve(_, _)
Resolve(at, path) ==
  IF path = <<>> THEN at
  ELSE IF Head(path) = ".."
       THEN Resolve(SubSeq(at, 1, Len(at) - 1), Tail(path))
  ELSE IF Head(path) \in {".", ""} \cup Separators
       THEN Resolve(at, Tail(path))
  ELSE Resolve(Append(at, Head(path)), Tail(path))

SanitizeInit ==
  /\ CacheInit
  /\ IdleApp
  /\ files = {} /\ dirs = {<<>>}
  /\ manifest = [i \in Ids |-> NoRecord]
  /\ \E name \in RawNames :
       job = [NoJob EXCEPT !.op = "install", !.stage = "name",
                           !.entries = <<name>>]
  /\ intact = [i \in Ids |-> FALSE]
  /\ last = Result("none", "none", <<>>)
  /\ removed = NoRemoved
  /\ manifest_exists = TRUE

\* let sanitized_file_path = sanitize_file_path(entry.filename());
\* record.files.push(sanitized_file_path)
sanitize_entry ==
  /\ job.stage = "name"
  /\ job' = [job EXCEPT !.stage = "path",
                        !.files = <<sanitize_file_path(job.entries[1])>>]
  /\ UNCHANGED <<files, dirs, manifest, intact, last, removed,
                 manifest_exists>>
  /\ UNCHANGED <<appVars, cacheVars>>

\* let path = self.res_mods_path.join(sanitized_file_path): the location
\* the directory or file of the entry is created at
join_entry ==
  /\ job.stage = "path"
  /\ job' = [job EXCEPT !.stage = "joined"]
  /\ last' = Result("install", "path",
                    Resolve(<<>>, Join(ResMods, job.files[1])))
  /\ UNCHANGED <<files, dirs, manifest, intact, removed, manifest_exists>>
  /\ UNCHANGED <<appVars, cacheVars>>

SanitizeNext == sanitize_entry \/ join_entry

SanitizeSpec == SanitizeInit /\ [][SanitizeNext]_vars

\* C25: for every entry name, with '..' segments, empty segments, a leading
\* separator or backslashes, the path install records is relative and has
\* no '..' (nor '.', empty or separator) component, and the location the
\* entry is created at lies under the resource-mod directory.
C25_SanitizedStaysInside ==
  /\ job.stage \in {"path", "joined"} =>
       \A i \in 1..Len(job.files[1]) :
         job.files[1][i] \notin {"..", ".", ""} \cup Separators
  /\ job.stage = "joined" =>
       /\ Len(last.file) >= Len(ResMods)
       /\ SubSeq(last.file, 1, Len(ResMods)) = ResMods

\* the entry "/..\..//a" has been sanitized to "a" and joined
C25_Witness ==
  /\ job.stage = "joined"
  /\ job.entries = << <<"/", "..", "\\", "a">> >>
  /\ job.files = << <<"a">> >>
  /\ last.file = Append(ResMods, "a")

\* ------------------------------------------------------------------------
\* Part VII (LocateSpec): ModManager::try_from_game_dir on a game directory
\* (src/src/mod_manager.rs).  job holds what game_dir/bin is (stage) and
\* what its listing yields (entries), last the result of the call.
\* ------------------------------------------------------------------------
\* entries of game_dir/bin
MaxListing == 3

\* file names, character by character
BuildNames == { <<"7">>, <<"0", "7">>, <<"+", "7">>, <<"1", "2">>, <<"9">>,
                <<"x">>, <<"1", "a">> }

\* what read_dir yields for one entry: a DirEntry or an io::Error
DirEntry(name) == [ok |-> TRUE, name |-> name]
EntryError == [ok |-> FALSE, name |-> <<>>]

\* the listings of game_dir/bin: distinct entries in any order
Listings ==
  {l \in UNION {[1..n -> {DirEntry(b) : b \in BuildNames} \cup {EntryError}] :
                  n \in 0..MaxListing} :
     \A i, j \in DOMAIN l : l[i] = l[j] => i = j}

\* the value of a decimal digit
DigitOf(c) ==
  CASE c = "0" -> 0 [] c = "1" -> 1 [] c = "2" -> 2 [] c = "3" -> 3
    [] c = "4" -> 4 [] c = "5" -> 5 [] c = "6" -> 6 [] c = "7" -> 7
    [] c = "8" -> 8 [] c = "9" -> 9
IsDigit(c) == c \in {"0", "1", "2", "3", "4", "5", "6", "7", "8", "9"}

\* str::parse::<u64>: an optional '+', then one digit or more
ParseU64(name) ==
  LET digits == IF name # <<>> /\ Head(name) = "+" THEN Tail(name) ELSE name
  IN IF digits # <<>> /\ \A i \in DOMAIN digits : IsDigit(digits[i])
     THEN [ok |-> TRUE,
           value |-> Number([i \in DOMAIN digits |-> DigitOf(digits[i])])]
     ELSE [ok |-> FALSE, value |-> 0]

\* Result<DirEntry, Error>, the accumulator of the fold
Found(name) == [res |-> "ok", name |-> name]
Failure(error) == [res |-> error, name |-> <<>>]

\* the later entry taken whatever the numbers are
Greater_latest(x, y) == y

\* if x_num > y_num { x } else { y }
Greater(x, y) ==
  IF ParseU64(x).value > ParseU64(y).value THEN x ELSE y

\* the closure of the fold, on the accumulator x and the next entry y
FoldStep(x, y) ==
  IF ~y.ok THEN Failure("Io")
  ELSE IF ~ParseU64(y.name).ok THEN x
  ELSE IF x.res # "ok" THEN Found(y.name)
  ELSE IF ~ParseU64(x.name).ok THEN Found(y.name)
  ELSE Found(Greater(x.name, y.name))

\* Iterator::fold
RECURSIVE Fold(_, _)
Fold(x, entries) ==
  IF entries = <<>> THEN x
  ELSE Fold(FoldStep(x, Head(entries)), Tail(entries))

\* dir.path().join("res_mods"), character by character
ResModsOf(name) == <<"game", "/", "bin", "/">> \o name \o <<"/", "res_mods">>

\* try_from_game_dir as a function of what game_dir/bin is
Locate(stage, entries) ==
  IF stage # "listed" THEN Result("locate", "Io", <<>>)
  ELSE LET dir == Fold(Failure("ResModsDirNotFound"), entries) IN
         IF dir.res = "ok"
         THEN Result("locate", "ok", ResModsOf(dir.name))
         ELSE Result("locate", dir.res, <<>>)

LocateInit ==
  /\ CacheInit
  /\ IdleApp
  /\ files = {} /\ dirs = {<<>>}
  /\ manifest = [i \in Ids |-> NoRecord]
  /\ \/ \E stage \in {"absent", "unreadable"} :
          job = [NoJob EXCEPT !.op = "locate", !.stage = stage]
     \/ \E entries \in Listings :
          job = [NoJob EXCEPT !.op = "locate", !.stage = "listed",
                              !.entries = entries]
  /\ intact = [i \in Ids |-> FALSE]
  /\ last = Result("none", "none", <<>>)
  /\ removed = NoRemoved
  /\ manifest_exists = TRUE

\* ModManager::try_from_game_dir(game_dir)
try_from_game_dir ==
  /\ job.op = "locate" /\ last.op = "none"
  /\ last' = Locate(job.stage, job.entries)
  /\ UNCHANGED <<files, dirs, manifest, job, intact, removed,
                 manifest_exists>>
  /\ UNCHANGED <<appVars, cacheVars>>

LocateNext == try_from_game_dir

LocateSpec == LocateInit /\ [][LocateNext]_vars

\* the numerically-named entries of a listing, and their numbers
Numeric(entries) ==
  {i \in DOMAIN entries : entries[i].ok /\ ParseU64(entries[i].name).ok}
Numbers(entries) ==
  {ParseU64(entries[i].name).value : i \in Numeric(entries)}
\* every entry is yielded without an error
Readable(entries) == \A i \in DOMAIN entries : entries[i].ok
\* the same entries in another order
Reorderings(entries) ==
  {[i \in DOMAIN entries |-> entries[p[i]]] :
     p \in {q \in [DOMAIN entries -> DOMAIN entries] :
              \A i, j \in DOMAIN entries : q[i] = q[j] => i = j}}
\* no two numerically-named entries have the same number
DistinctNumbers(entries) ==
  \A i, j \in Numeric(entries) :
    ParseU64(entries[i].name).value = ParseU64(entries[j].name).value
      => i = j
\* the call has been made on a listing that has a numerically-named entry
Located ==
  /\ last.op = "locate" /\ job.stage = "listed"
  /\ Readable(job.entries) /\ Numeric(job.entries) # {}

C27_NotFound ==
  (/\ last.op = "locate"
   /\ \/ job.stage \in {"absent", "unreadable"}
      \/ Readable(job.entries) /\ Numeric(job.entries) = {})
    => last.res = "ResModsDirNotFound"

\* ------------------------------------------------------------------------
\* Properties of the scheduling step (Spec)
\* ------------------------------------------------------------------------
\* the task objects of a kind with a given identity, before the step
Before(kind, tid) ==
  {TaskQueue(kind)[i] : i \in {n \in 1..Len(TaskQueue(kind)) :
                                 TaskQueue(kind)[n].tid = tid}}
\* and after it
After(kind, tid) ==
  {TaskQueue(kind)'[i] : i \in {n \in 1..Len(TaskQueue(kind)') :
                                  TaskQueue(kind)'[n].tid = tid}}

\* C23: start is called only on Ready task objects: an operation is started
\* for a task that was Ready in its queue or has just been created; a
\* Failed or Finished task is never Running again, and the one the
\* scheduling step meets at the front of a queue is discarded.
C23_StartOnlyReady ==
  [][\A kind \in Kinds :
       /\ \A op \in Started(kind) :
            IF Before(kind, op.tid) = {}
            THEN op.tid = next_tid[kind]
            ELSE \A t \in Before(kind, op.tid) : t.state = "Ready"
       /\ \A i \in 1..Len(TaskQueue(kind)) :
            LET t == TaskQueue(kind)[i] IN
              \A u \in After(kind, t.tid) :
                /\ t.state \in {"Failed", "Finished"} => u = t
                /\ (u.state = "Running" /\ t.state # "Running")
                     => t.state = "Ready"
       /\ (/\ HandlesModManagerReady
           /\ kind \in {"install", "uninstall"}
           /\ TaskQueue(kind) # <<>>
           /\ TaskQueue(kind)[1].state \in {"Failed", "Finished"}
           /\ kind = "install" => Ready(uninstalls) = {})
            => After(kind, TaskQueue(kind)[1].tid) = {}]_vars

\* a Failed Install stands at the front of its queue, not restarted, while
\* the Uninstall the scheduling step started after the failure is Running
C23_Witness ==
  /\ installs # <<>>
  /\ installs[1].state = "Failed"
  /\ Running(uninstalls) # {}
  /\ mod_manager = FALSE

\* the step sends a message of this type
Sends(type) == CopiesIn(M(type), msgs') > Copies(type)

\* C28: when the scheduling step finds no Ready task in either queue it
\* begins the current-mods refresh if that one is pending (clearing its
\* flag only), else the records refresh if that one is pending (clearing
\* its flag), else parks the handle; with a Ready task waiting it begins no
\* refresh and leaves the flags; a refresh requested while the handle is
\* parked is begun at once.
C28_RefreshWhenIdle ==
  [][/\ (HandlesModManagerReady /\ Ready(installs) \cup Ready(uninstalls) = {})
          => IF need_current_mods_update
             THEN /\ Sends("UpdateCurrentMods") /\ ~Sends("UpdateRecords")
                  /\ ~need_current_mods_update'
                  /\ need_records_update' = need_records_update
                  /\ ~mod_manager'
             ELSE IF need_records_update
             THEN /\ Sends("UpdateRecords") /\ ~Sends("UpdateCurrentMods")
                  /\ ~need_records_update'
                  /\ ~mod_manager'
             ELSE /\ mod_manager'
                  /\ ~Sends("UpdateRecords") /\ ~Sends("UpdateCurrentMods")
     /\ (HandlesModManagerReady /\ Ready(installs) \cup Ready(uninstalls) # {})
          => /\ ~Sends("UpdateRecords") /\ ~Sends("UpdateCurrentMods")
             /\ UNCHANGED <<need_current_mods_update, need_records_update>>
     /\ (mod_manager /\ CopiesIn(M("QueueUpdateCurrentMods"), msgs')
                          < Copies("QueueUpdateCurrentMods"))
          => Sends("UpdateCurrentMods") /\ ~mod_manager'
                /\ UNCHANGED need_current_mods_update
     /\ (mod_manager /\ CopiesIn(M("QueueUpdateRecords"), msgs')
                          < Copies("QueueUpdateRecords"))
          => Sends("UpdateRecords") /\ ~mod_manager'
                /\ UNCHANGED need_records_update]_vars

\* the current-mods refresh has been begun with the handle while the
\* records refresh is still pending
C28_Witness ==
  /\ Copies("UpdateCurrentMods") = 1
  /\ ~need_current_mods_update
  /\ need_records_update
  /\ Ready(installs) \cup Ready(uninstalls) = {}
  /\ ~mod_manager

\* C29: whenever the handle is parked, both queues are empty (no task in
\* any state is left in them) and neither refresh flag is set.
C29_ParkedMeansIdle ==
  mod_manager =>
    /\ installs = <<>> /\ uninstalls = <<>>
    /\ ~need_current_mods_update /\ ~need_records_update

\* the handle is parked again after an Install has run
C29_Witness ==
  /\ mod_manager
  /\ next_tid["install"] > 1
  /\ next_tid["uninstall"] > 1

\* C30: when a single UpdateMods names m for install (the button then names
\* it for uninstall too), the Install of m is started only after the
\* Uninstall of m has been created, started and ended, whatever the order
\* in which the messages of the batch and the download's end are handled.
C30_UninstallBeforeInstall ==
  [][\A op \in Started("install") :
       requests = 2 =>
         /\ CopiesIn(Msg("UninstallMod", op.id, "-"), msgs) = 0
         /\ \A i \in 1..Len(uninstalls) :
              uninstalls[i].id = op.id
                => uninstalls[i].state \in {"Finished", "Failed"}
         /\ \A u \in ops : ~(u.kind = "uninstall" /\ u.id = op.id)]_vars

\* ------------------------------------------------------------------------
\* Properties of the task objects
\* ------------------------------------------------------------------------
\* the operation a Running task object was started for
OpOf(kind, t) == {op \in ops : op.kind = kind /\ op.tid = t.tid}

\* a progress value within [0, 1]
InUnit(p) == p.den > 0 /\ 0 <= p.num /\ p.num <= p.den

\* C21: the progress a Running Download, Install or Uninstall stores is
\* exactly -1 when the max its operation reported last is 0, and otherwise
\* current / max (in f32), which lies within [0, 1] for every current the
\* operation reports; before any report it is 0.
C21_ProgressInUnit ==
  \A kind \in Kinds :
    \A i \in 1..Len(TaskQueue(kind)) :
      LET t == TaskQueue(kind)[i] IN
        t.state = "Running" =>
          \A op \in OpOf(kind, t) :
            IF op.stage = "get" THEN t.progress = Zero
            ELSE IF op.max = 0 THEN t.progress = MinusOne
            ELSE /\ t.progress
                      = Quotient(ToF32(op.current), ToF32(op.max))
                 /\ InUnit(t.progress)

\* a Running Download has stored current / max for a current that f32
\* rounds, short of the max
C21_Witness ==
  /\ downloads # <<>>
  /\ downloads[1].state = "Running"
  /\ \E op \in OpOf("download", downloads[1]) :
       /\ op.stage = "body" /\ op.max # 0
       /\ ToF32(op.current) # op.current
       /\ downloads[1].progress.num < downloads[1].progress.den

\* C22: update(event) changes the state of a task object only when it is
\* Running: a progress event keeps it Running, a terminal event moves it to
\* Finished (Ok) or Failed (Err); a Ready, Finished or Failed task object
\* is left as it was by every event.
C22_UpdateOnlyWhenRunning ==
  [][\A kind \in Kinds :
       (last'.op = "update" /\ last'.file = <<kind>>) =>
         LET t == TaskQueue(kind)[1]
             u == TaskQueue(kind)'[1]
         IN /\ TaskQueue(kind) # <<>> /\ TaskQueue(kind)' # <<>>
            /\ IF t.state = "Running"
               THEN u.state = CASE last'.res = "progress" -> "Running"
                                [] last'.res = "ok" -> "Finished"
                                [] last'.res = "err" -> "Failed"
               ELSE u = t]_vars

\* a Failed task object has been updated with the Ok event and is Failed
C22_Witness ==
  /\ last.op = "update" /\ last.res = "ok"
  /\ TaskQueue(last.file[1]) # <<>>
  /\ TaskQueue(last.file[1])[1].state = "Failed"

\* C24: dropping a Running Download, Install or Uninstall cancels the
\* operation it was started for, so every operation still under way
\* belongs to a task object that is there and Running.
C24_DropCancels ==
  \A op \in ops :
    /\ TaskQueue(op.kind) # <<>>
    /\ TaskQueue(op.kind)[1].tid = op.tid
    /\ TaskQueue(op.kind)[1].state = "Running"

\* ------------------------------------------------------------------------
\* Properties of a started Install (LiveSpec)
\* ------------------------------------------------------------------------
\* an Install operation is under way
InstallUnderWay == \E op \in ops : op.kind = "install"

\* C37: every Install that is started eventually delivers a terminal event
\* that carries the handle back, whatever its archive type: once an Install
\* operation is under way, a ModManagerReady is eventually in flight (or the
\* program has stopped in the panic of a failed download).
C37_InstallGivesHandleBack ==
  InstallUnderWay ~> (Copies("ModManagerReady") > 0 \/ crashed)

\* ------------------------------------------------------------------------
\* Part VIII (PoolSpec): the orchestrator after the button has been pressed
\* twice with m1 ticked for install, so that two requests for the same id
\* are under way: the handle is parked, the registry lists m1, and the two
\* batches UninstallMod(m1), GetMod(m1) are in flight.
\* ------------------------------------------------------------------------
PoolInit ==
  /\ CacheInit
  /\ mod_manager = TRUE
  /\ installs = <<>> /\ uninstalls = <<>> /\ downloads = <<>>
  /\ registries = <<[id \in Ids |-> "zip"]>>
  /\ need_current_mods_update = FALSE /\ need_records_update = FALSE
  /\ msgs = SetToBag({Msg("UninstallMod", "m1", "-"),
                      Msg("GetMod", "m1", "-")})
            (+) SetToBag({Msg("UninstallMod", "m1", "-"),
                          Msg("GetMod", "m1", "-")})
  /\ ops = {}
  /\ next_tid = [k \in Kinds |-> 1]
  /\ requests = 4
  /\ crashed = FALSE
  /\ FsInit

PoolNext ==
  \/ GetMod("m1")
  \/ \E op \in ops : \E ok \in BOOLEAN : GetModUpdated(op, ok)
  \/ InstallMod("m1", "zip")
  \/ \E op \in ops : \E ok \in BOOLEAN : InstallModUpdated(op, ok)
  \/ UninstallMod("m1")
  \/ \E op \in ops : \E ok \in BOOLEAN : UninstallModUpdated(op, ok)
  \/ ModManagerReady
  \/ QueueUpdateRecords
  \/ UpdateRecords
  \/ RecordsUpdated
  \/ Warning
  \/ CurrentModMsg("AddCurrentMod", "m1")
  \/ CurrentModMsg("RemoveCurrentMod", "m1")

PoolSpec == PoolInit /\ [][PoolNext]_vars

\* the operation op ends in this step with its Ok event
EndsWithOk(op) ==
  /\ op \in ops /\ op \notin ops'
  /\ ~crashed'
  /\ Len(TaskQueue(op.kind)') < Len(TaskQueue(op.kind))

\* C33: each successful terminal event of a Download removes that Download
\* from the pool and issues exactly one InstallMod for its id (with the type
\* the registry lists); handling an InstallMod creates exactly one Install
\* of that id.
C33_DownloadBecomesInstall ==
  [][/\ \A op \in ops :
          (op.kind = "download" /\ EndsWithOk(op)) =>
            /\ After("download", op.tid) = {}
            /\ \A i \in 1..Len(downloads) :
                 downloads[i].tid # op.tid
                   => After("download", downloads[i].tid) # {}
            /\ msgs' = Send(msgs, {Msg("InstallMod", op.id,
                                       RequestMod(op.id))})
     /\ \A id \in Ids, ty \in Types \cup {""} :
          CopiesIn(Msg("InstallMod", id, ty), msgs')
              < CopiesIn(Msg("InstallMod", id, ty), msgs)
            => /\ Len(installs') = Len(installs) + 1
               /\ installs'[Len(installs')].id = id
               /\ installs'[Len(installs')].ty = ty
               /\ installs'[Len(installs')].tid = next_tid["install"]]_vars

\* C36: a terminal event is applied to, and on success removes, the task
\* object whose operation produced it, also with several tasks of the same
\* id in the collection: no task is Running in a collection without its
\* operation under way, and the task an ending operation belongs to is
\* found.
C36_EventReachesItsTask ==
  ~crashed =>
  /\ \A kind \in Kinds :
       \A i \in 1..Len(TaskQueue(kind)) :
         TaskQueue(kind)[i].state = "Running"
           => \E op \in ops : op.kind = kind
                              /\ op.tid = TaskQueue(kind)[i].tid
  /\ \A op \in ops :
       \E i \in 1..Len(TaskQueue(op.kind)) :
         /\ TaskQueue(op.kind)[i].tid = op.tid
         /\ TaskQueue(op.kind)[i].state = "Running"

\* ------------------------------------------------------------------------
\* Part IX (CacheSpec): the orchestrator together with the record store.
\* The handle is parked and the registry is loaded; the two refresh
\* requests of App::new are in flight; the manifest is what an earlier run
\* left. An install or uninstall operation does its whole work on the
\* store in the step that delivers its terminal event: it owns the handle,
\* so nothing else touches the store while it runs.
\* ------------------------------------------------------------------------
\* what the downloaded archives hold
DownloadedArchives == { << <<"a.txt">> >>,
                        << <<"dir", "/">>, <<"dir", "/", "b.txt">> >> }

\* the manifest and the files an earlier run may have left
EarlierRuns ==
  { [manifest |-> [i \in Ids |-> NoRecord], files |-> {}],
    [manifest |-> [i \in Ids |-> IF i = "m1"
                                 THEN Record("1.0", << <<"a.txt">> >>)
                                 ELSE NoRecord],
     files |-> { <<"a.txt">> }] }

StartInit ==
  /\ mod_manager = TRUE
  /\ installs = <<>> /\ uninstalls = <<>> /\ downloads = <<>>
  /\ registries = <<[id \in Ids |-> "zip"]>>
  /\ need_current_mods_update = FALSE /\ need_records_update = FALSE
  /\ msgs = SetToBag({M("QueueUpdateCurrentMods"), M("QueueUpdateRecords")})
  /\ ops = {}
  /\ next_tid = [k \in Kinds |-> 1]
  /\ requests = 0
  /\ crashed = FALSE
  /\ \E run \in EarlierRuns : manifest = run.manifest /\ files = run.files
  /\ dirs = {<<>>}
  /\ job = NoJob
  /\ intact = [i \in Ids |-> FALSE]
  /\ last = Result("none", "none", <<>>)
  /\ removed = NoRemoved
  /\ manifest_exists = TRUE
  /\ CacheInit

\* "for task in tasks { task.await?; }" from the files fs and directories
\* ds: the store after the tasks, or after the ones before the first that
\* fails
RECURSIVE RunTasks(_, _, _)
RunTasks(tasks, fs, ds) ==
  IF tasks = <<>> THEN [ok |-> TRUE, files |-> fs, dirs |-> ds]
  ELSE LET task == Head(tasks) IN
    IF task.kind = "mkdir"
    THEN IF Prefixes(task.path) \cap fs = {}
         THEN RunTasks(Tail(tasks), fs, ds \cup Prefixes(task.path))
         ELSE [ok |-> FALSE, files |-> fs, dirs |-> ds]
    ELSE IF Parent(task.path) \in ds /\ task.path \notin ds
         THEN RunTasks(Tail(tasks), fs \cup {task.path}, ds)
         ELSE [ok |-> FALSE, files |-> fs, dirs |-> ds]

\* install_zip_mod run to its end on the archive
InstallRun(archive) ==
  LET scan == Scan(archive, <<>>, <<>>) IN
    IF scan.res = "FileConflict"
    THEN [ok |-> FALSE, files |-> files, dirs |-> dirs, paths |-> scan.files]
    ELSE [paths |-> scan.files] @@ RunTasks(scan.tasks, files, dirs)

\* an install operation runs install_zip_mod and delivers its terminal event
install_mod(op, archive) ==
  LET run == InstallRun(archive) IN
    /\ InstallFinished(op, run.ok)
    /\ files' = run.files
    /\ dirs' = run.dirs
    /\ manifest' = IF run.ok
                   THEN write_records([manifest EXCEPT ![op.id] =
                                         Record("1.0", run.paths)])
                   ELSE manifest
    /\ UNCHANGED <<job, intact, last, removed, manifest_exists>>

\* an uninstall operation runs uninstall_mod and delivers its terminal event
uninstall_mod_task(op) ==
  /\ UninstallFinished(op, TRUE)
  /\ IF ~manifest[op.id].present
     THEN /\ manifest' = write_records(manifest)
          /\ UNCHANGED files
     ELSE /\ files' = RemoveFiles(manifest[op.id].files, files)
          /\ UNCHANGED manifest
  /\ UNCHANGED <<dirs, job, intact, last, removed, manifest_exists>>

CacheNext ==
  \/ QueueUpdateRecords
  \/ UpdateRecords
  \/ RecordsUpdated
  \/ QueueUpdateCurrentMods
  \/ UpdateCurrentMods
  \/ CurrentModsUpdated
  \/ Warning
  \/ \E id \in Ids : CurrentModMsg("AddCurrentMod", id)
  \/ \E id \in Ids : CurrentModMsg("RemoveCurrentMod", id)
  \/ \E id \in Ids : GetMod(id)
  \/ \E op \in ops : GetModUpdated(op, TRUE)
  \/ \E id \in Ids : InstallMod(id, "zip")
  \/ \E op \in ops : \E archive \in DownloadedArchives :
       install_mod(op, archive)
  \/ \E id \in Ids : UninstallMod(id)
  \/ \E op \in ops : uninstall_mod_task(op)
  \/ ModManagerReady
  \/ Request

CacheSpec == StartInit /\ [][CacheNext]_vars

\* nothing is under way: the handle is parked, no message is in flight, no
\* operation runs and no task is Running
Quiescent ==
  /\ mod_manager = TRUE
  /\ msgs = EmptyBag
  /\ ops = {}
  /\ \A kind \in Kinds : Running(TaskQueue(kind)) = {}
  /\ ~crashed

\* C38: whenever the orchestrator is quiescent, the cached records equal
\* the manifest on disk.
C38_RecordsMatchManifest ==
  Quiescent => app_records = manifest

\* quiescent after an install of this run has written the Record of m2,
\* which the cached records hold
C38_Witness ==
  /\ Quiescent
  /\ manifest["m2"].present
  /\ app_records["m2"] = Record("1.0", << <<"dir">>, <<"dir", "b.txt">> >>)
  /\ installs = <<>> /\ uninstalls = <<>>

\* while the value read travels with the handle no operation works on the
\* store
ReadIsCurrent ==
  (Copies("UpdateRecords") + Copies("RecordsUpdated")
   + Copies("UpdateCurrentMods") + Copies("CurrentModsUpdated") > 0)
    => HandleOps = {}

\* C39: whenever the orchestrator is quiescent, current_mods is the key set
\* of the manifest on disk.
C39_CurrentModsAreManifestKeys ==
  Quiescent => current_mods = Keys(manifest)

====
